---- MODULE Spec2Model ----
(***************************************************************************)
(* Predator-prey radial tree: the hierarchy builder                        *)
(* (wolf-prey-network-real-data.r), the fetch endpoint (server.js and its  *)
(* /tmp/data variant) and the React renderer's data loading.               *)
(*                                                                         *)
(* Character strings that the code edits (predator taxa, species names,   *)
(* file names, leaf labels) are sequences of text pieces in which every    *)
(* character the code looks at (space, underscore, parenthesis) is a piece *)
(* of its own.  Rank names (kingdom, class, order, family) are only ever   *)
(* compared, and are plain strings.                                        *)
(***************************************************************************)
EXTENDS Integers, Sequences, FiniteSets, TLC

VARIABLES
  \* ---- fetch_predator_prey_data (one run of the R script) ----
  bpc,                  \* position in fetch_predator_prey_data
  predator_taxon,       \* argument predator_taxon
  predator_common_name, \* local predator_common_name
  predator_info,        \* local predator_info: what get_taxonomy(predator_taxon) returned
  tax_info,             \* local tax_info: what get_taxonomy(species_name) returned last
  type_idx,             \* index of the for loop over interaction_types
  row_i,                \* index i of the for loop over the rows of prey_data
  all_interactions,     \* data frame all_interactions (one record per raw row)
  prey_data,            \* data frame prey_data (distinct rows)
  taxonomy_data,        \* data frame taxonomy_data
  hierarchy,            \* list hierarchy, as written to the artifact
  ret,                  \* return value of fetch_predator_prey_data ("none" before)
  fs,                   \* the data directory: set of [path, content]
  \* ---- the fetch endpoint (server.js, and its /tmp/data variant) ----
  deployment,           \* which definition of the route is the one running
  requests,             \* the POST requests, each with its Rscript process
  \* ---- the renderer (IlluminumStyledPredatorPreyTree) ----
  variant,              \* which definition of the component is the one mounted
  data,                 \* state data
  loading,              \* state loading
  error,                \* state error ("null" or the message's first words)
  selectedPredator,     \* state selectedPredator
  searchQuery,          \* state searchQuery
  searchHistory,        \* state searchHistory (the ids of its items)
  tasks,                \* the calls of the async functions, in starting order
  \* ---- the render effect (the useEffect on [data, brandColors]) ----
  container,            \* the child elements of vizRef.current
  passes,               \* how many times the effect has drawn
  layout,               \* what tree(root) has assigned to the nodes of root
  dx,                   \* let dx of the pass that drew the svg element
  dy,                   \* let dy of that pass
  transform,            \* the transform attribute of gElement: translate(x, y)
  dragEvents,           \* the drag events delivered to dragged since that pass
  clicks,               \* the nodes the click events were delivered to
  opened                \* the calls of window.open

builderVars == <<bpc, predator_taxon, predator_common_name, predator_info, tax_info,
                 type_idx, row_i,
                 all_interactions, prey_data, taxonomy_data, hierarchy, ret>>
serverVars == <<deployment, requests>>
clientVars == <<variant, data, loading, error, selectedPredator, searchQuery,
                searchHistory, tasks>>

renderVars == <<container, passes, layout, dx, dy, transform, dragEvents, clicks,
                opened>>

vars == <<builderVars, fs, serverVars, clientVars, renderVars>>

\* nothing has been drawn
NotDrawn ==
  /\ container = <<>>
  /\ passes = 0
  /\ layout = [nodes |-> <<>>, full |-> 0]
  /\ dx = 0
  /\ dy = 0
  /\ transform = <<>>
  /\ dragEvents = <<>>
  /\ clicks = <<>>
  /\ opened = <<>>

\* no component is mounted
NotMounted ==
  /\ variant = "none"
  /\ data = [name |-> <<>>, children |-> <<>>]
  /\ loading = FALSE
  /\ error = "null"
  /\ selectedPredator = <<>>
  /\ searchQuery = <<>>
  /\ searchHistory = <<>>
  /\ tasks = <<>>
  /\ NotDrawn

----------------------------------------------------------------------------
(* Bounds of the model *)

MaxRecords == 3         \* raw interaction rows returned by the database in total
MaxRequests == 2        \* POST requests to the fetch endpoint
MaxTasks == 5           \* calls of the renderer's async functions
MaxPasses == 3          \* times the render effect draws
MaxFamilies == 3        \* family nodes of a kingdom node given to the layout
MaxLeaves == 3          \* species leaves of a family node given to the layout
MaxItems == 2           \* items of a target_taxon_path given to the taxonomy loop
MaxDrags == 2           \* drag events delivered to one drawing
MaxClicks == 2          \* click events delivered to the nodes
MaxSpecies == 2         \* prey species given to the hierarchy build on its own

----------------------------------------------------------------------------
(* Generic sequence helpers *)

\* R's NULL and NA, for a data frame and for a taxon path
NULL == [is_null |-> TRUE, rows |-> <<>>]
NA == [is_na |-> TRUE, items |-> <<>>]
Path(items) == [is_na |-> FALSE, items |-> items]

RECURSIVE Flatten(_)
Flatten(ss) == IF ss = <<>> THEN <<>> ELSE Head(ss) \o Flatten(Tail(ss))

\* base::unique / dplyr::distinct: first occurrences, in order
RECURSIVE UniqueFrom(_, _)
UniqueFrom(s, seen) ==
  IF s = <<>> THEN <<>>
  ELSE IF Head(s) \in seen THEN UniqueFrom(Tail(s), seen)
       ELSE <<Head(s)>> \o UniqueFrom(Tail(s), seen \cup {Head(s)})

Unique(s) == UniqueFrom(s, {})

\* the i-th item of a pool that is used again from its start
PoolItem(pool, i) == pool[((i - 1) % Len(pool)) + 1]

\* gsub(from, to, s) for a one-character pattern: every occurrence
RECURSIVE GsubChar(_, _, _)
GsubChar(from, to, s) ==
  IF s = <<>> THEN <<>>
  ELSE <<IF Head(s) = from THEN to ELSE Head(s)>> \o GsubChar(from, to, Tail(s))

\* String.prototype.replace(from, to) with a string pattern: first occurrence only
RECURSIVE ReplaceFirstChar(_, _, _)
ReplaceFirstChar(from, to, s) ==
  IF s = <<>> THEN <<>>
  ELSE IF Head(s) = from THEN <<to>> \o Tail(s)
       ELSE <<Head(s)>> \o ReplaceFirstChar(from, to, Tail(s))

----------------------------------------------------------------------------
(* The external world as seen by the R script *)

\* interaction_types, in the order the script queries them
interaction_types == <<"preysOn", "eats", "pollinates">>

CervusElaphus == <<"Cervus", " ", "elaphus">>
QuercusRobur == <<"Quercus", " ", "robur">>
LepusTimidus == <<"Lepus", " ", "timidus">>

\* target_taxon_path values: NA or a list of rank/name items between "|"
PathAves == Path(<< [rank |-> "class", name |-> "Aves"],
               [rank |-> "family", name |-> "Corvidae"] >>)
PathPlant == Path(<< [rank |-> "kingdom", name |-> "Plantae"],
                [rank |-> "class", name |-> "Magnoliopsida"],
                [rank |-> "family", name |-> "Fagaceae"] >>)

\* the rows get_interactions_by_taxa can return (without interaction_type)
GlobiRows ==
  { [target_taxon_name |-> CervusElaphus, target_taxon_path |-> NA],
    [target_taxon_name |-> CervusElaphus, target_taxon_path |-> PathAves],
    [target_taxon_name |-> QuercusRobur,  target_taxon_path |-> PathPlant] }

\* what classification(species, db = "gbif") can give for one call
GbifDeer == << [rank |-> "kingdom", name |-> "Animalia"],
               [rank |-> "class", name |-> "Mammalia"],
               [rank |-> "order", name |-> "Artiodactyla"],
               [rank |-> "family", name |-> "Cervidae"],
               [rank |-> "species", name |-> "Cervus elaphus"] >>
GbifPlantNoClass == << [rank |-> "kingdom", name |-> "Plantae"],
                       [rank |-> "family", name |-> "Fagaceae"] >>

GbifResults ==
  { [kind |-> "error", rows |-> <<>>],       \* classification() raised
    [kind |-> "df", rows |-> GbifDeer],
    [kind |-> "df", rows |-> GbifPlantNoClass] }

\* the default predator of the script
CanisLupus == <<"Canis", " ", "lupus">>

output_dir == <<"data", "/">>

----------------------------------------------------------------------------
(* get_taxonomy and the per-row taxonomy resolution *)

\* get_taxonomy: NULL unless classification() gave a data frame with the
\* columns rank and name
get_taxonomy(result) ==
  IF result.kind = "df" THEN [is_null |-> FALSE, rows |-> result.rows] ELSE NULL

\* which(tax_info$rank == r), then tax_info$name[...]: the names of the rows
\* of that rank, in order
RECURSIVE NamesOfRank(_, _)
NamesOfRank(info, r) ==
  IF info = <<>> THEN <<>>
  ELSE (IF Head(info).rank = r THEN <<Head(info).name>> ELSE <<>>)
       \o NamesOfRank(Tail(info), r)

\* if (length(row) > 0) tax_info$name[row] else "Unknown"
RankOrUnknown(info, r) ==
  IF Len(NamesOfRank(info, r)) > 0 THEN NamesOfRank(info, r)
  ELSE <<"Unknown">>

Max2(a, b) == IF a >= b THEN a ELSE b

\* data.frame(...) of columns of different lengths: as many rows as the
\* longest column, shorter columns recycled
Recycle(col, j) == col[((j - 1) % Len(col)) + 1]

DataFrameRows(species_name, kingdom, class, order, family, interaction_type) ==
  LET n == Max2(Max2(Len(kingdom), Len(class)), Max2(Len(order), Len(family)))
  IN [j \in 1..n |->
        [species |-> species_name,
         kingdom |-> Recycle(kingdom, j),
         class |-> Recycle(class, j),
         order |-> Recycle(order, j),
         family |-> Recycle(family, j),
         scientific_name |-> species_name,
         interaction_type |-> interaction_type]]

\* grepl("<key>:", item) on an item "<rank>:<name>": the rank ends in key.
\* The result is what gsub("<key>:", "", item) leaves in front of the name.
RankPrefix(rank, key) ==
  IF rank = key THEN ""
  ELSE IF <<rank, key>> \in { <<"subkingdom", "kingdom">>, <<"subclass", "class">>,
                             <<"suborder", "order">>, <<"subfamily", "family">> }
       THEN "sub"
  ELSE IF <<rank, key>> \in { <<"superclass", "class">>, <<"superorder", "order">>,
                             <<"superfamily", "family">> }
       THEN "super"
  ELSE "nomatch"

\* gsub("<key>:", "", item)
StripKey(item, key) ==
  IF RankPrefix(item.rank, key) = "" THEN item.name
  ELSE IF RankPrefix(item.rank, key) = "sub" /\ item.name = "Cervinae" THEN "subCervinae"
  ELSE "prefixed"

\* for (item in path) if (grepl(key, item)) x <- gsub(key, "", item): the
\* last matching item wins, "Unknown" when none matches
RECURSIVE PathRank(_, _, _)
PathRank(path, key, acc) ==
  IF path = <<>> THEN acc
  ELSE PathRank(Tail(path), key,
                IF RankPrefix(Head(path).rank, key) # "nomatch"
                THEN StripKey(Head(path), key) ELSE acc)

\* body of "for(i in 1:nrow(prey_data))": the rows appended to taxonomy_data
\* for one row of prey_data, given what get_taxonomy returned
TaxonomyRowsFor(row, info) ==
  IF ~info.is_null
  THEN DataFrameRows(row.target_taxon_name,
                     RankOrUnknown(info.rows, "kingdom"),
                     RankOrUnknown(info.rows, "class"),
                     RankOrUnknown(info.rows, "order"),
                     RankOrUnknown(info.rows, "family"),
                     row.interaction_type)
  ELSE IF ~row.target_taxon_path.is_na
  THEN DataFrameRows(row.target_taxon_name,
                     <<PathRank(row.target_taxon_path.items, "kingdom", "Unknown")>>,
                     <<PathRank(row.target_taxon_path.items, "class", "Unknown")>>,
                     <<PathRank(row.target_taxon_path.items, "order", "Unknown")>>,
                     <<PathRank(row.target_taxon_path.items, "family", "Unknown")>>,
                     row.interaction_type)
  ELSE DataFrameRows(row.target_taxon_name, <<"Unknown">>, <<"Unknown">>,
                     <<"Unknown">>, <<"Unknown">>, row.interaction_type)

----------------------------------------------------------------------------
(* Counting, filtering, sorting and the construction of the hierarchy *)

\* all_interactions %>% select(target_taxon_name, target_taxon_path,
\* interaction_type) %>% distinct()
DistinctPreyData(interactions) == Unique(interactions)

\* a count grouped by species only
JoinedCount_BySpeciesOnly(row, interactions) ==
  LET n == Cardinality({i \in 1..Len(interactions) :
                          interactions[i].target_taxon_name = row.species})
  IN IF n = 0 THEN -1 ELSE n

\* interaction_counts joined by (species, interaction_type): n() of the group,
\* NA (written -1) when there is no such group
JoinedCount(row, interactions) ==
  LET n == Cardinality({i \in 1..Len(interactions) :
                          /\ interactions[i].target_taxon_name = row.species
                          /\ interactions[i].interaction_type = row.interaction_type})
  IN IF n = 0 THEN -1 ELSE n

\* left_join(taxonomy_data, interaction_counts), then NA counts become 1
PreyDataComplete(taxonomy, interactions) ==
  [i \in 1..Len(taxonomy) |->
     [species |-> taxonomy[i].species,
      kingdom |-> taxonomy[i].kingdom,
      class |-> taxonomy[i].class,
      family |-> taxonomy[i].family,
      interaction_type |-> taxonomy[i].interaction_type,
      count |-> IF JoinedCount(taxonomy[i], interactions) = -1 THEN 1
                ELSE JoinedCount(taxonomy[i], interactions)]]

animal_kingdoms == {"Animalia", "Metazoa"}
animal_classes == {"Mammalia", "Aves", "Actinopterygii", "Reptilia", "Amphibia"}

\* a filter without the "class is Unknown" alternative
KeepRow_WithoutUnknownClass(r) ==
  \/ r.kingdom \in animal_kingdoms
  \/ r.class \in animal_classes
  \/ r.kingdom = "Unknown"

\* the condition of filter(...)
KeepRow(r) ==
  \/ r.kingdom \in animal_kingdoms
  \/ r.class \in animal_classes
  \/ r.kingdom = "Unknown"
  \/ r.class = "Unknown"

\* an assignment that leaves every kingdom as it was resolved
NormalizeKingdom_Unchanged(r) == r

\* kingdom[kingdom == "Unknown" & class %in% c(...)] <- "Animalia"
NormalizeKingdom(r) ==
  IF r.kingdom = "Unknown" /\ r.class \in animal_classes
  THEN [r EXCEPT !.kingdom = "Animalia"] ELSE r

\* an insertion that puts a row before the rows of equal count
RECURSIVE InsertByCount_BeforeEqual(_, _)
InsertByCount_BeforeEqual(r, sorted) ==
  IF sorted = <<>> THEN <<r>>
  ELSE IF Head(sorted).count > r.count
       THEN <<Head(sorted)>> \o InsertByCount_BeforeEqual(r, Tail(sorted))
       ELSE <<r>> \o sorted

\* arrange(desc(count)): stable, larger counts first
RECURSIVE InsertByCount(_, _)
InsertByCount(r, sorted) ==
  IF sorted = <<>> THEN <<r>>
  ELSE IF Head(sorted).count >= r.count
       THEN <<Head(sorted)>> \o InsertByCount(r, Tail(sorted))
       ELSE <<r>> \o sorted

RECURSIVE ArrangeDescFrom(_, _)
ArrangeDescFrom(rows, sorted) ==
  IF rows = <<>> THEN sorted
  ELSE ArrangeDescFrom(Tail(rows), InsertByCount(Head(rows), sorted))

\* an arrange that leaves the rows in the order of the join
ArrangeDescCount_Unsorted(rows) == rows

ArrangeDescCount(rows) == ArrangeDescFrom(rows, <<>>)

\* prey_data_filtered after filter, kingdom assignment and arrange
FilterRows(rows) ==
  LET kept == SelectSeq(rows, KeepRow)
      normalized == [i \in 1..Len(kept) |-> NormalizeKingdom(kept[i])]
  IN ArrangeDescCount(normalized)

PreyDataFiltered(taxonomy, interactions) ==
  FilterRows(PreyDataComplete(taxonomy, interactions))

\* prey_data_filtered$kingdom and kingdom_data$family
KingdomColumn(rows) == [i \in 1..Len(rows) |-> rows[i].kingdom]
FamilyColumn(rows) == [i \in 1..Len(rows) |-> rows[i].family]

\* paste0(species, " (", species, ")") and the leaf list item
SpeciesItem(r) ==
  [name |-> r.species \o <<" ", "(">> \o r.species \o <<")">>,
   value |-> r.count,
   interaction_type |-> r.interaction_type]

\* a family item that keeps the first row of the family only
FamilyItem_FirstRow(f, kingdom_data) ==
  LET InFamily(r) == r.family = f
      family_data == SelectSeq(kingdom_data, InFamily)
  IN [name |-> f, children |-> <<SpeciesItem(family_data[1])>>]

FamilyItem(f, kingdom_data) ==
  LET InFamily(r) == r.family = f
      family_data == SelectSeq(kingdom_data, InFamily)
  IN [name |-> f,
      children |-> [i \in 1..Len(family_data) |-> SpeciesItem(family_data[i])]]

\* a kingdom item that lists the families of all rows, not of its own rows
KingdomItem_AllFamilies(k, filtered) ==
  LET InKingdom(r) == r.kingdom = k
      kingdom_data == SelectSeq(filtered, InKingdom)
      unique_families == Unique(FamilyColumn(filtered))
  IN [name |-> k,
      children |-> [j \in 1..Len(unique_families) |->
                      FamilyItem(unique_families[j], kingdom_data)]]

KingdomItem(k, filtered) ==
  LET InKingdom(r) == r.kingdom = k
      kingdom_data == SelectSeq(filtered, InKingdom)
      unique_families == Unique(FamilyColumn(kingdom_data))
  IN [name |-> k,
      children |-> [j \in 1..Len(unique_families) |->
                      FamilyItem(unique_families[j], kingdom_data)]]

\* the list hierarchy built from prey_data_filtered
BuildHierarchy(common_name, taxon, filtered) ==
  LET unique_kingdoms == Unique(KingdomColumn(filtered))
  IN [name |-> common_name \o <<" ", "(">> \o taxon \o <<")">>,
      children |-> [j \in 1..Len(unique_kingdoms) |->
                      KingdomItem(unique_kingdoms[j], filtered)]]

\* output_path: gsub(" ", "_", predator_taxon) and the fixed suffix
OutputPath(dir, taxon) ==
  dir \o GsubChar(" ", "_", taxon) \o <<"_prey_hierarchy.json">>

\* write(json_data, output_path): the file holds the new document
WriteFile(files, path, content) ==
  {f \in files : f.path # path} \cup {[path |-> path, content |-> content]}

FileExists(files, path) == \E f \in files : f.path = path

\* response.json() of a GET under /data/
ReadFile(files, path) == (CHOOSE f \in files : f.path = path).content

----------------------------------------------------------------------------
(* fetch_predator_prey_data, step by step *)

NoHierarchy == [name |-> <<>>, children |-> <<>>]

BuilderInit ==
  /\ bpc = "get_predator"
  /\ predator_taxon = CanisLupus
  /\ predator_common_name = <<>>
  /\ predator_info = NULL
  /\ tax_info = NULL
  /\ type_idx = 1
  /\ row_i = 1
  /\ all_interactions = <<>>
  /\ prey_data = <<>>
  /\ taxonomy_data = <<>>
  /\ hierarchy = NoHierarchy
  /\ ret = "none"
  /\ fs = {}
  /\ deployment = "none"
  /\ requests = <<>>
  /\ NotMounted

\* a common name that is never looked up
CommonName_AlwaysTaxon(taxon, info) == taxon

\* predator_common_name: the name of the species-rank row of the predator's
\* taxonomy, predator_taxon when there is none
CommonName(taxon, info) ==
  IF ~info.is_null /\ Len(NamesOfRank(info.rows, "species")) > 0
  THEN NamesOfRank(info.rows, "species")
  ELSE taxon

GetPredatorInfo ==
  /\ bpc = "get_predator"
  /\ \E result \in GbifResults :
       /\ predator_info' = get_taxonomy(result)
       /\ predator_common_name' = CommonName(predator_taxon, predator_info')
  /\ bpc' = "fetch"
  /\ UNCHANGED <<predator_taxon, tax_info, type_idx, row_i, all_interactions, prey_data,
                 taxonomy_data, hierarchy, ret, fs>>
  /\ UNCHANGED <<serverVars, clientVars, renderVars>>

\* interaction_data$interaction_type <- interaction_type
TagRows(batch, interaction_type) ==
  [i \in 1..Len(batch) |->
     [target_taxon_name |-> batch[i].target_taxon_name,
      target_taxon_path |-> batch[i].target_taxon_path,
      interaction_type |-> interaction_type]]

\* one iteration of "for(interaction_type in interaction_types)"
FetchInteractions ==
  /\ bpc = "fetch"
  /\ \E n \in 0..(MaxRecords - Len(all_interactions)) :
       \E batch \in [1..n -> GlobiRows] :
         all_interactions' =
           IF Len(batch) > 0
           THEN all_interactions \o TagRows(batch, interaction_types[type_idx])
           ELSE all_interactions
  /\ type_idx' = type_idx + 1
  /\ bpc' = IF type_idx = Len(interaction_types) THEN "clean" ELSE "fetch"
  /\ UNCHANGED <<predator_taxon, predator_common_name, predator_info, tax_info, row_i, prey_data,
                 taxonomy_data, hierarchy, ret, fs>>
  /\ UNCHANGED <<serverVars, clientVars, renderVars>>

\* get_interactions_by_taxa raises (it is not inside a tryCatch): the script
\* stops with an error
FetchRaises ==
  /\ bpc = "fetch"
  /\ bpc' = "failed"
  /\ UNCHANGED <<predator_taxon, predator_common_name, predator_info, tax_info, type_idx, row_i,
                 all_interactions, prey_data, taxonomy_data, hierarchy, ret, fs>>
  /\ UNCHANGED <<serverVars, clientVars, renderVars>>

\* else branch of "if(nrow(all_interactions) > 0)": return(FALSE)
NoInteractions ==
  /\ bpc = "clean"
  /\ Len(all_interactions) = 0
  /\ ret' = "FALSE"
  /\ bpc' = "done"
  /\ UNCHANGED <<predator_taxon, predator_common_name, predator_info, tax_info, type_idx, row_i,
                 all_interactions, prey_data, taxonomy_data, hierarchy, fs>>
  /\ UNCHANGED <<serverVars, clientVars, renderVars>>

SelectDistinct ==
  /\ bpc = "clean"
  /\ Len(all_interactions) > 0
  /\ prey_data' = DistinctPreyData(all_interactions)
  /\ taxonomy_data' = <<>>
  /\ row_i' = 1
  /\ bpc' = "taxonomy"
  /\ UNCHANGED <<predator_taxon, predator_common_name, predator_info, tax_info, type_idx,
                 all_interactions, hierarchy, ret, fs>>
  /\ UNCHANGED <<serverVars, clientVars, renderVars>>

\* one iteration of "for(i in 1:nrow(prey_data))"
ProcessSpecies ==
  /\ bpc = "taxonomy"
  /\ \E result \in GbifResults :
       /\ tax_info' = get_taxonomy(result)
       /\ taxonomy_data' =
            taxonomy_data \o TaxonomyRowsFor(prey_data[row_i], tax_info')
  /\ row_i' = row_i + 1
  /\ bpc' = IF row_i = Len(prey_data) THEN "build" ELSE "taxonomy"
  /\ UNCHANGED <<predator_taxon, predator_common_name, predator_info, type_idx,
                 all_interactions, prey_data, hierarchy, ret, fs>>
  /\ UNCHANGED <<serverVars, clientVars, renderVars>>

\* counts, join, filter, kingdom assignment, sort, hierarchy, write, return(TRUE)
BuildAndWrite ==
  /\ bpc = "build"
  /\ hierarchy' = BuildHierarchy(predator_common_name, predator_taxon,
                                 PreyDataFiltered(taxonomy_data, all_interactions))
  /\ fs' = WriteFile(fs, OutputPath(output_dir, predator_taxon), hierarchy')
  /\ ret' = "TRUE"
  /\ bpc' = "done"
  /\ UNCHANGED <<predator_taxon, predator_common_name, predator_info, tax_info, type_idx, row_i,
                 all_interactions, prey_data, taxonomy_data>>
  /\ UNCHANGED <<serverVars, clientVars, renderVars>>

BuilderNext ==
  \/ GetPredatorInfo
  \/ FetchInteractions
  \/ FetchRaises
  \/ NoInteractions
  \/ SelectDistinct
  \/ ProcessSpecies
  \/ BuildAndWrite

BuilderSpec == BuilderInit /\ [][BuilderNext]_vars

\* The taxonomy loop on its own: the script after the fetch loop has found one
\* interaction, whose target_taxon_path is NA or a list of up to MaxItems
\* "rank:name" items
PathItems ==
  { [rank |-> "kingdom", name |-> "Animalia"],
    [rank |-> "phylum", name |-> "Chordata"],
    [rank |-> "class", name |-> "Mammalia"],
    [rank |-> "order", name |-> "Artiodactyla"],
    [rank |-> "family", name |-> "Cervidae"],
    [rank |-> "subfamily", name |-> "Cervinae"] }

TaxonPaths ==
  {NA} \cup {Path(items) : items \in UNION {[1..n -> PathItems] : n \in 0..MaxItems}}

TaxonomyInit ==
  /\ bpc = "clean"
  /\ predator_taxon = CanisLupus
  /\ predator_common_name = CanisLupus
  /\ predator_info = NULL
  /\ tax_info = NULL
  /\ type_idx = Len(interaction_types) + 1
  /\ row_i = 1
  /\ \E path \in TaxonPaths, t \in 1..Len(interaction_types) :
       all_interactions =
         TagRows(<<[target_taxon_name |-> CervusElaphus,
                    target_taxon_path |-> path]>>, interaction_types[t])
  /\ prey_data = <<>>
  /\ taxonomy_data = <<>>
  /\ hierarchy = NoHierarchy
  /\ ret = "none"
  /\ fs = {}
  /\ deployment = "none"
  /\ requests = <<>>
  /\ NotMounted

TaxonomyNext ==
  \/ SelectDistinct
  \/ ProcessSpecies
  \/ BuildAndWrite

TaxonomySpec == TaxonomyInit /\ [][TaxonomyNext]_vars

\* The hierarchy build on its own: the script after the taxonomy loop, with
\* up to MaxSpecies prey species whose lookups gave every combination of
\* these kingdoms, classes and families
BuildSpecies == <<CervusElaphus, LepusTimidus, QuercusRobur>>
BuildKingdoms == {"Animalia", "Unknown", "Plantae"}
BuildClasses == {"Mammalia", "Unknown"}
BuildFamilies == {"Cervidae", "Unknown"}

\* the interaction of the i-th species and the row its lookup has added
BuildInteraction(i) ==
  [target_taxon_name |-> PoolItem(BuildSpecies, i), target_taxon_path |-> NA,
   interaction_type |-> interaction_types[1]]

BuildTaxonomyRow(i, kingdom, class, family) ==
  DataFrameRows(PoolItem(BuildSpecies, i), <<kingdom>>, <<class>>, <<"Unknown">>,
                <<family>>, interaction_types[1])[1]

HierarchyInit ==
  /\ bpc = "build"
  /\ predator_taxon = CanisLupus
  /\ predator_common_name = CanisLupus
  /\ predator_info = NULL
  /\ tax_info = NULL
  /\ type_idx = Len(interaction_types) + 1
  /\ \E n \in 1..MaxSpecies :
       /\ row_i = n + 1
       /\ all_interactions = [i \in 1..n |-> BuildInteraction(i)]
       /\ prey_data = [i \in 1..n |-> BuildInteraction(i)]
       /\ \E kingdoms \in [1..n -> BuildKingdoms], classes \in [1..n -> BuildClasses],
             families \in [1..n -> BuildFamilies] :
            taxonomy_data =
              [i \in 1..n |-> BuildTaxonomyRow(i, kingdoms[i], classes[i], families[i])]
  /\ hierarchy = NoHierarchy
  /\ ret = "none"
  /\ fs = {}
  /\ deployment = "none"
  /\ requests = <<>>
  /\ NotMounted

HierarchyNext == BuildAndWrite

HierarchySpec == HierarchyInit /\ [][HierarchyNext]_vars

----------------------------------------------------------------------------
(* The fetch endpoint: app.post('/api/fetch-predator-data') with its Rscript *)
(* child process, and the static route that serves the data directory       *)

\* the three definitions of the route: src/unnamed/part_001 (data in
\* /tmp/data), the first one of server.js, and the second one of server.js
Deployments == {"part_001", "server_js", "server_js_second"}

\* values of req.query.predator; <<>> is a missing or empty parameter
ReqPredators ==
  { <<>>,
    <<"Canis", " ", "lupus">>,
    <<"Canis", " ", "lupus", " ", "familiaris">>,
    <<"Canis", ";", "rm">> }

\* the characters the pattern [^a-zA-Z0-9 \.] lets through
AllowedPiece(c) == c \notin {";", "_", "(", ")", "&", "|"}

\* predator.replace(/[^a-zA-Z0-9 \.]/g, '')
Sanitize(predator) == SelectSeq(predator, AllowedPiece)

dataDir == <<"/tmp/data", "/">>

\* sanitizedPredator.replace(' ', '_') + '_prey_hierarchy.json', under dataDir
ServerOutputFilePath(predator) ==
  dataDir \o ReplaceFirstChar(" ", "_", predator) \o <<"_prey_hierarchy.json">>

\* '/data/' + predator.replace(' ', '_') + '_prey_hierarchy.json', which the static
\* route maps into dataDir
ClientJsonFilePath(predator) ==
  dataDir \o ReplaceFirstChar(" ", "_", predator) \o <<"_prey_hierarchy.json">>

\* what the script may have written to stderr when it exits normally
StderrTexts == {"Loading required package: rglobi", "Error: lookup failed"}

\* stderr.includes('Error:') || stderr.includes('could not find')
StderrReportsError(stderr) ==
  stderr \in {"Error: lookup failed", "could not find function"}

NewRequest ==
  [predator |-> <<>>, stage |-> "idle", status |-> 0, spawned |-> FALSE,
   error |-> "none", stderr |-> "", ret |-> "none", json_data |-> NoHierarchy,
   written |-> <<>>, checked |-> <<>>, read |-> <<>>, read_status |-> 0,
   read_body |-> NoHierarchy]

ServerInit ==
  /\ deployment \in Deployments
  /\ requests = [id \in 1..MaxRequests |-> NewRequest]
  /\ fs = {}
  /\ bpc = "off"
  /\ predator_taxon = <<>>
  /\ predator_common_name = <<>>
  /\ predator_info = NULL
  /\ tax_info = NULL
  /\ type_idx = 1
  /\ row_i = 1
  /\ all_interactions = <<>>
  /\ prey_data = <<>>
  /\ taxonomy_data = <<>>
  /\ hierarchy = NoHierarchy
  /\ ret = "none"
  /\ NotMounted

\* requests are numbered in the order in which they arrive
Arrives(id) ==
  /\ requests[id].stage = "idle"
  /\ \A earlier \in 1..(id - 1) : requests[earlier].stage # "idle"

\* the route handler of part_001 and the first one of server.js, up to exec()
ValidatedHandler(id, predator) ==
  /\ Arrives(id)
  /\ requests' =
       [requests EXCEPT ![id] =
          IF predator = <<>>
          THEN [@ EXCEPT !.predator = predator, !.stage = "responded", !.status = 400]
          ELSE IF Sanitize(predator) # predator
          THEN [@ EXCEPT !.predator = predator, !.stage = "responded", !.status = 400]
          ELSE [@ EXCEPT !.predator = predator, !.stage = "running", !.spawned = TRUE]]
  /\ UNCHANGED <<builderVars, fs, deployment, clientVars, renderVars>>

PostFetchPart001(id) ==
  /\ deployment = "part_001"
  /\ \E predator \in ReqPredators : ValidatedHandler(id, predator)

PostFetchServerJs(id) ==
  /\ deployment = "server_js"
  /\ \E predator \in ReqPredators : ValidatedHandler(id, predator)

\* the second route handler of server.js, up to exec(): the raw predator goes
\* into the command line
PostFetchServerJsSecond(id) ==
  /\ deployment = "server_js_second"
  /\ Arrives(id)
  /\ \E predator \in ReqPredators :
       requests' =
         [requests EXCEPT ![id] =
            IF predator = <<>>
            THEN [@ EXCEPT !.predator = predator, !.stage = "responded", !.status = 400]
            ELSE [@ EXCEPT !.predator = predator, !.stage = "running", !.spawned = TRUE]]
  /\ UNCHANGED <<builderVars, fs, deployment, clientVars, renderVars>>

\* the taxonomy_data a whole run of the loop over prey_data produces
TaxonomyData(prey, results) ==
  Flatten([i \in 1..Len(prey) |-> TaxonomyRowsFor(prey[i], get_taxonomy(results[i]))])

\* the hierarchy a run of fetch_predator_prey_data builds
ScriptHierarchy(taxon, predator_result, interactions, results) ==
  BuildHierarchy(CommonName(taxon, get_taxonomy(predator_result)), taxon,
                 PreyDataFiltered(TaxonomyData(DistinctPreyData(interactions), results),
                                  interactions))

\* the interactions the database returns to a run started by the endpoint
ScriptInteractions ==
  { <<>>,
    TagRows(<<[target_taxon_name |-> CervusElaphus, target_taxon_path |-> PathAves]>>,
            "preysOn") }

\* what the GBIF lookups of such a run give (the same for each of its calls)
ScriptGbifResults ==
  { [kind |-> "error", rows |-> <<>>], [kind |-> "df", rows |-> GbifDeer] }

\* write() opens output_path for writing: the file is there and has no bytes
OpenedFile == [name |-> <<>>, children |-> <<>>, bytes |-> "none"]

\* the bytes of one document written from offset 0 over those of a longer
\* one: the end of the longer one stays behind the new document
WrittenOver(json_data) ==
  [name |-> json_data.name, children |-> json_data.children, bytes |-> "mixed"]

\* what the file can hold after a process has written json_data from offset 0
\* and closed it: the document alone, or, when another process has written a
\* longer document since this one opened the file, the document followed by
\* the rest of the other (the model's documents carry no byte length)
ClosedFiles(files, path, json_data) ==
  IF ~FileExists(files, path) THEN {json_data}
  ELSE LET old == ReadFile(files, path)
       IN IF old = OpenedFile \/ old = json_data THEN {json_data}
          ELSE {json_data, WrittenOver(json_data)}

\* Rscript runs fetch_predator_prey_data(predator, dataDir) up to the point
\* where write() has opened the output file, or to its return of FALSE
RscriptBuild(id) ==
  /\ requests[id].stage = "running"
  /\ \E interactions \in ScriptInteractions, result \in ScriptGbifResults :
       IF Len(interactions) > 0
       THEN /\ fs' = WriteFile(fs, OutputPath(dataDir, requests[id].predator), OpenedFile)
            /\ requests' = [requests EXCEPT ![id].stage = "writing",
                              ![id].json_data =
                                ScriptHierarchy(requests[id].predator, result, interactions,
                                                [i \in 1..Len(interactions) |-> result]),
                              ![id].written = OutputPath(dataDir, requests[id].predator)]
       ELSE /\ fs' = fs
            /\ requests' = [requests EXCEPT ![id].stage = "built", ![id].ret = "FALSE"]
  /\ UNCHANGED <<builderVars, deployment, clientVars, renderVars>>

\* write() puts json_data into the file and closes it; the function returns
\* TRUE, and its local json_data is gone
RscriptWrite(id) ==
  /\ requests[id].stage = "writing"
  /\ \E content \in ClosedFiles(fs, requests[id].written, requests[id].json_data) :
       fs' = WriteFile(fs, requests[id].written, content)
  /\ requests' = [requests EXCEPT ![id].stage = "built", ![id].ret = "TRUE",
                    ![id].json_data = NoHierarchy]
  /\ UNCHANGED <<builderVars, deployment, clientVars, renderVars>>

\* the script stops with an R error: non-zero exit status
RscriptRaises(id) ==
  /\ requests[id].stage = "running"
  /\ requests' = [requests EXCEPT ![id].stage = "exited", ![id].error = "exit",
                    ![id].stderr = "Error in get_interactions_by_taxa"]
  /\ UNCHANGED <<builderVars, fs, deployment, clientVars, renderVars>>

\* the script ends with exit status 0
RscriptExit(id) ==
  /\ requests[id].stage = "built"
  /\ \E text \in StderrTexts :
       requests' = [requests EXCEPT ![id].stage = "exited", ![id].stderr = text]
  /\ UNCHANGED <<builderVars, fs, deployment, clientVars, renderVars>>

\* exec's timeout option (600000 ms) ends the child with SIGTERM
ExecTimeout(id) ==
  /\ deployment \in {"part_001", "server_js"}
  /\ requests[id].stage \in {"running", "writing", "built"}
  /\ requests' = [requests EXCEPT ![id].stage = "exited", ![id].error = "SIGTERM",
                    ![id].json_data = NoHierarchy]
  /\ UNCHANGED <<builderVars, fs, deployment, clientVars, renderVars>>

\* a callback that answers a timeout like any other failure of the process
ResponseStatus_TimeoutAsFailure(r, outputFilePath, files) ==
  IF r.error # "none" THEN 500
  ELSE IF StderrReportsError(r.stderr) THEN 500
  ELSE IF ~FileExists(files, outputFilePath) THEN 404
  ELSE 200

\* the status of the one response the callback of exec() sends
ResponseStatus(r, outputFilePath, files) ==
  IF r.error = "SIGTERM" THEN 504
  ELSE IF r.error # "none" THEN 500
  ELSE IF StderrReportsError(r.stderr) THEN 500
  ELSE IF ~FileExists(files, outputFilePath) THEN 404
  ELSE 200

\* the callback of exec() in part_001 and in the first handler of server.js
ExecCallback(id) ==
  /\ deployment \in {"part_001", "server_js"}
  /\ requests[id].stage = "exited"
  /\ LET r == requests[id]
         outputFilePath == ServerOutputFilePath(r.predator)
         status == ResponseStatus(r, outputFilePath, fs)
     IN requests' =
          [requests EXCEPT ![id] =
             [r EXCEPT !.stage = "responded", !.status = status,
                       !.checked = IF status \in {404, 200}
                                   THEN outputFilePath ELSE r.checked]]
  /\ UNCHANGED <<builderVars, fs, deployment, clientVars, renderVars>>

\* the callback of exec() in the second handler of server.js
ExecCallbackSecond(id) ==
  /\ deployment = "server_js_second"
  /\ requests[id].stage = "exited"
  /\ requests' =
       [requests EXCEPT ![id] =
          IF @.error # "none" THEN [@ EXCEPT !.stage = "responded", !.status = 500]
          ELSE [@ EXCEPT !.stage = "responded", !.status = 200]]
  /\ UNCHANGED <<builderVars, fs, deployment, clientVars, renderVars>>

\* after a successful trigger the renderer GETs the artifact from the static route
ReadArtifact(id) ==
  /\ requests[id].stage = "responded"
  /\ requests[id].status = 200
  /\ requests' =
       [requests EXCEPT ![id].stage = "read",
                        ![id].read = ClientJsonFilePath(requests[id].predator),
                        ![id].read_status =
                          IF FileExists(fs, ClientJsonFilePath(requests[id].predator))
                          THEN 200 ELSE 404,
                        ![id].read_body =
                          IF FileExists(fs, ClientJsonFilePath(requests[id].predator))
                          THEN ReadFile(fs, ClientJsonFilePath(requests[id].predator))
                          ELSE NoHierarchy]
  /\ UNCHANGED <<builderVars, fs, deployment, clientVars, renderVars>>

ServerNext ==
  \E id \in 1..MaxRequests :
    \/ PostFetchPart001(id)
    \/ PostFetchServerJs(id)
    \/ PostFetchServerJsSecond(id)
    \/ RscriptBuild(id)
    \/ RscriptWrite(id)
    \/ RscriptRaises(id)
    \/ RscriptExit(id)
    \/ ExecTimeout(id)
    \/ ExecCallback(id)
    \/ ExecCallbackSecond(id)
    \/ ReadArtifact(id)

ServerSpec == ServerInit /\ [][ServerNext]_vars

----------------------------------------------------------------------------
(* The renderer: IlluminumStyledPredatorPreyTree and its data loading *)

\* the two definitions of the component: src/unnamed/part_004 (search box and
\* recent searches) and src/src/PredatorPreyRadialTree.js (drop-down list)
Variants == {"part_004", "PredatorPreyRadialTree"}

VulpesVulpes == <<"Vulpes", " ", "vulpes">>

\* the ids of availablePredators (the first and the fourth of the five)
availablePredators == <<CanisLupus, VulpesVulpes>>

\* what the user types into the search box
SearchTexts ==
  { <<" ">>,
    <<"Vulpes", " ", "vulpes", " ">>,
    <<"vulpes", " ", "vulpes">> }

\* String.prototype.trim on a sequence of pieces
RECURSIVE TrimStart(_)
TrimStart(s) ==
  IF s # <<>> /\ Head(s) = " " THEN TrimStart(Tail(s)) ELSE s

RECURSIVE TrimEnd(_)
TrimEnd(s) ==
  IF s # <<>> /\ s[Len(s)] = " " THEN TrimEnd(SubSeq(s, 1, Len(s) - 1)) ELSE s

Trim(s) == TrimEnd(TrimStart(s))

\* String.prototype.toLowerCase, piece by piece
LowerPiece(c) ==
  CASE c = "Canis" -> "canis"
    [] c = "Vulpes" -> "vulpes"
    [] c = "Lynx" -> "lynx"
    [] OTHER -> c

ToLowerCase(s) == [i \in 1..Len(s) |-> LowerPiece(s[i])]

\* the document a build for the predator leaves in the data directory
ArtifactFor(predator) ==
  ScriptHierarchy(predator, [kind |-> "error", rows |-> <<>>],
                  TagRows(<<[target_taxon_name |-> CervusElaphus,
                             target_taxon_path |-> PathAves]>>, "preysOn"),
                  <<[kind |-> "error", rows |-> <<>>]>>)

ArtifactFile(predator) ==
  [path |-> OutputPath(dataDir, predator), content |-> ArtifactFor(predator)]

\* the data directory when the component is mounted
InitialDataDirs ==
  { {}, {ArtifactFile(CanisLupus)},
    {ArtifactFile(CanisLupus), ArtifactFile(VulpesVulpes)} }


\* '/data/Canis_lupus_prey_hierarchy.json'
DefaultJsonFilePath == dataDir \o <<"Canis", "_", "lupus", "_prey_hierarchy.json">>

\* a fallback that keeps the name of the default document
DefaultDataName_Unlabelled(predator) == CanisLupus \o <<" ", "(">> \o CanisLupus \o <<")">>

\* the template literal: selectedPredator, then ' (using Gray wolf data)'
DefaultDataName(predator) == predator \o <<" ", "(", "using Gray wolf data", ")">>

\* a call of loadData made by the effect on [selectedPredator]; by is the
\* handler whose setSelectedPredator made the effect run
LoadTask(predator, by) ==
  [kind |-> "loadData", predator |-> predator, pc |-> "fetch", by |-> by,
   history |-> <<>>]

\* a call of handleSearch; history is the searchHistory of the render whose
\* handler was called
SearchTask(predator, history) ==
  [kind |-> "handleSearch", predator |-> predator, pc |-> "post", by |-> "submit",
   history |-> history]

Done(task) == [task EXCEPT !.pc = "done", !.history = <<>>]

\* calls that the started calls still have to make
PendingSearches ==
  Cardinality({t \in DOMAIN tasks :
                 tasks[t].kind = "handleSearch" /\ tasks[t].pc # "done"})

Reserved == Len(tasks) + PendingSearches

ClientInit ==
  /\ variant \in Variants
  /\ data = NoHierarchy
  /\ loading = TRUE
  /\ error = "null"
  /\ selectedPredator = CanisLupus
  /\ searchQuery = <<>>
  /\ searchHistory = IF variant = "part_004" THEN <<CanisLupus>> ELSE <<>>
  /\ tasks = <<LoadTask(CanisLupus, "mount")>>
  /\ NotDrawn
  /\ fs \in InitialDataDirs
  /\ deployment = "part_001"
  /\ requests = [id \in 1..MaxRequests |-> NewRequest]
  /\ bpc = "off"
  /\ predator_taxon = <<>>
  /\ predator_common_name = <<>>
  /\ predator_info = NULL
  /\ tax_info = NULL
  /\ type_idx = 1
  /\ row_i = 1
  /\ all_interactions = <<>>
  /\ prey_data = <<>>
  /\ taxonomy_data = <<>>
  /\ hierarchy = NoHierarchy
  /\ ret = "none"

\* loadData, from the answer to fetch(jsonFilePath) on
LoadDataFetched(t) ==
  /\ t \in DOMAIN tasks
  /\ tasks[t].kind = "loadData"
  /\ tasks[t].pc = "fetch"
  /\ LET jsonFilePath == ClientJsonFilePath(tasks[t].predator)
     IN IF FileExists(fs, jsonFilePath)
        THEN /\ data' = ReadFile(fs, jsonFilePath)
             /\ loading' = FALSE
             /\ tasks' = [tasks EXCEPT ![t] = Done(@)]
             /\ UNCHANGED error
        ELSE IF tasks[t].predator # CanisLupus
        THEN /\ tasks' = [tasks EXCEPT ![t].pc = "fetch_default"]
             /\ UNCHANGED <<data, loading, error>>
        ELSE /\ error' = "Failed to load data"
             /\ loading' = FALSE
             /\ tasks' = [tasks EXCEPT ![t] = Done(@)]
             /\ UNCHANGED data
  /\ UNCHANGED <<variant, selectedPredator, searchQuery, searchHistory>>
  /\ UNCHANGED <<builderVars, fs, serverVars, renderVars>>

\* loadData, from the answer to fetch('/data/Canis_lupus_prey_hierarchy.json') on
LoadDataDefaultFetched(t) ==
  /\ t \in DOMAIN tasks
  /\ tasks[t].kind = "loadData"
  /\ tasks[t].pc = "fetch_default"
  /\ IF FileExists(fs, DefaultJsonFilePath)
     THEN /\ data' = [ReadFile(fs, DefaultJsonFilePath) EXCEPT
                        !.name = DefaultDataName(tasks[t].predator)]
          /\ UNCHANGED error
     ELSE /\ error' = "Failed to load data"
          /\ UNCHANGED data
  /\ loading' = FALSE
  /\ tasks' = [tasks EXCEPT ![t] = Done(@)]
  /\ UNCHANGED <<variant, selectedPredator, searchQuery, searchHistory>>
  /\ UNCHANGED <<builderVars, fs, serverVars, renderVars>>

handleSearchChange(text) ==
  /\ variant = "part_004"
  /\ text # searchQuery
  /\ searchQuery' = text
  /\ UNCHANGED <<variant, data, loading, error, selectedPredator, searchHistory, tasks>>
  /\ UNCHANGED <<builderVars, fs, serverVars, renderVars>>

\* handleSearch up to its call of fetchPredatorData; the submit button is
\* disabled while loading
handleSearch ==
  /\ variant = "part_004"
  /\ ~loading
  /\ IF Trim(searchQuery) = <<>>
     THEN /\ error' = "Please enter a valid species name"
          /\ UNCHANGED <<loading, tasks>>
     ELSE /\ Reserved + 2 <= MaxTasks
          /\ loading' = TRUE
          /\ error' = "null"
          /\ tasks' = Append(tasks, SearchTask(Trim(searchQuery), searchHistory))
  /\ UNCHANGED <<variant, data, selectedPredator, searchQuery, searchHistory>>
  /\ UNCHANGED <<builderVars, fs, serverVars, renderVars>>

\* how the Rscript run of a fetch trigger ends
BuildOutcomes == {"written", "no data", "failed"}

\* the data directory after the run
DataDirAfter(files, predator, outcome) ==
  IF outcome = "written" /\ Sanitize(predator) = predator
  THEN WriteFile(files, OutputPath(dataDir, predator), ArtifactFor(predator))
  ELSE files

\* the endpoint answers the trigger with success
TriggerSucceeds(files, predator, outcome) ==
  /\ Sanitize(predator) = predator
  /\ outcome # "failed"
  /\ FileExists(files, ServerOutputFilePath(predator))

\* fetchPredatorData, from the answer to the POST on; when it throws,
\* handleSearch's catch block runs
FetchTriggerAnswered(t) ==
  /\ t \in DOMAIN tasks
  /\ tasks[t].kind = "handleSearch"
  /\ tasks[t].pc = "post"
  /\ \E outcome \in BuildOutcomes :
       /\ fs' = DataDirAfter(fs, tasks[t].predator, outcome)
       /\ IF TriggerSucceeds(fs', tasks[t].predator, outcome)
          THEN /\ tasks' = [tasks EXCEPT ![t].pc = "get"]
               /\ UNCHANGED <<loading, error>>
          ELSE /\ error' = "Search failed"
               /\ loading' = FALSE
               /\ tasks' = [tasks EXCEPT ![t] = Done(@)]
  /\ UNCHANGED <<variant, data, selectedPredator, searchQuery, searchHistory>>
  /\ UNCHANGED <<builderVars, serverVars, renderVars>>

\* the recent searches kept: the new one and prev.slice(0, 4)
MaxHistory == 5

\* Array.prototype.slice(0, n)
SliceFromStart(a, n) == SubSeq(a, 1, IF Len(a) < n THEN Len(a) ELSE n)

\* searchHistory after handleSearch's update for the predator; seen is the
\* searchHistory that the handler's some() looks through
HistoryAfterSearch(history, seen, predator) ==
  IF \E i \in 1..Len(seen) : ToLowerCase(seen[i]) = ToLowerCase(predator)
  THEN history
  ELSE <<predator>> \o SliceFromStart(history, MaxHistory - 1)

\* fetchPredatorData, from the answer to fetch(jsonFilePath) on, then the rest
\* of handleSearch, then the effect on [selectedPredator] when it has changed
FetchArtifactAnswered(t) ==
  /\ t \in DOMAIN tasks
  /\ tasks[t].kind = "handleSearch"
  /\ tasks[t].pc = "get"
  /\ LET predator == tasks[t].predator
         jsonFilePath == ClientJsonFilePath(predator)
     IN IF FileExists(fs, jsonFilePath)
        THEN /\ data' = ReadFile(fs, jsonFilePath)
             /\ searchHistory' = HistoryAfterSearch(searchHistory, tasks[t].history, predator)
             /\ selectedPredator' = predator
             /\ searchQuery' = <<>>
             /\ IF predator # selectedPredator
                THEN /\ loading' = TRUE
                     /\ tasks' = Append([tasks EXCEPT ![t] = Done(@)],
                                        LoadTask(predator, "handleSearch"))
                ELSE /\ loading' = FALSE
                     /\ tasks' = [tasks EXCEPT ![t] = Done(@)]
             /\ UNCHANGED error
        ELSE /\ error' = "Search failed"
             /\ loading' = FALSE
             /\ tasks' = [tasks EXCEPT ![t] = Done(@)]
             /\ UNCHANGED <<data, selectedPredator, searchQuery, searchHistory>>
  /\ UNCHANGED variant
  /\ UNCHANGED <<builderVars, fs, serverVars, renderVars>>

\* setSelectedPredator(predator), and the effect it makes run
SelectPredator(predator, by) ==
  /\ predator # selectedPredator
  /\ Reserved + 1 <= MaxTasks
  /\ selectedPredator' = predator
  /\ loading' = TRUE
  /\ tasks' = Append(tasks, LoadTask(predator, by))
  /\ UNCHANGED <<variant, data, error, searchQuery, searchHistory>>
  /\ UNCHANGED <<builderVars, fs, serverVars, renderVars>>

handleHistoryItemClick(i) ==
  /\ variant = "part_004"
  /\ i \in 1..Len(searchHistory)
  /\ SelectPredator(searchHistory[i], "handleHistoryItemClick")

handlePredatorChange(i) ==
  /\ variant = "PredatorPreyRadialTree"
  /\ i \in 1..Len(availablePredators)
  /\ SelectPredator(availablePredators[i], "handlePredatorChange")

\* an artifact disappears from the data directory (/tmp/data is not kept)
ArtifactLost ==
  /\ variant \in Variants
  /\ \E f \in fs : fs' = fs \ {f}
  /\ UNCHANGED <<builderVars, serverVars, clientVars, renderVars>>

ClientNext ==
  \/ ArtifactLost
  \/ \E t \in 1..MaxTasks :
       \/ LoadDataFetched(t)
       \/ LoadDataDefaultFetched(t)
       \/ FetchTriggerAnswered(t)
       \/ FetchArtifactAnswered(t)
  \/ \E text \in SearchTexts \cup {<<>>} : handleSearchChange(text)
  \/ handleSearch
  \/ \E i \in 1..MaxHistory : handleHistoryItemClick(i)
  \/ \E i \in 1..Len(availablePredators) : handlePredatorChange(i)

ClientSpec == ClientInit /\ [][ClientNext]_vars

----------------------------------------------------------------------------
(* The search box of part_004 from the state a completed search leaves *)

LynxLynx == <<"Lynx", " ", "lynx">>

\* what the user types next
LaterSearchTexts ==
  { LynxLynx, <<"lynx", " ", "lynx">> }

\* the component of part_004 after the search for Vulpes vulpes and the load it
\* started have ended
AfterSearchInit ==
  /\ variant = "part_004"
  /\ data = ArtifactFor(VulpesVulpes)
  /\ loading = FALSE
  /\ error = "null"
  /\ selectedPredator = VulpesVulpes
  /\ searchQuery = <<>>
  /\ searchHistory = <<VulpesVulpes, CanisLupus>>
  /\ tasks = <<>>
  /\ NotDrawn
  /\ fs = {ArtifactFile(CanisLupus), ArtifactFile(VulpesVulpes)}
  /\ deployment = "part_001"
  /\ requests = [id \in 1..MaxRequests |-> NewRequest]
  /\ bpc = "off"
  /\ predator_taxon = <<>>
  /\ predator_common_name = <<>>
  /\ predator_info = NULL
  /\ tax_info = NULL
  /\ type_idx = 1
  /\ row_i = 1
  /\ all_interactions = <<>>
  /\ prey_data = <<>>
  /\ taxonomy_data = <<>>
  /\ hierarchy = NoHierarchy
  /\ ret = "none"

SearchNext ==
  \/ ArtifactLost
  \/ \E t \in 1..MaxTasks :
       \/ LoadDataFetched(t)
       \/ LoadDataDefaultFetched(t)
       \/ FetchTriggerAnswered(t)
       \/ FetchArtifactAnswered(t)
  \/ \E text \in LaterSearchTexts : handleSearchChange(text)
  \/ handleSearch
  \/ \E i \in 1..MaxHistory : handleHistoryItemClick(i)

SearchSpec == AfterSearchInit /\ [][SearchNext]_vars

----------------------------------------------------------------------------
(* The radial layout: d3.hierarchy(data).sort(...) and d3.tree() *)

\* d.children of a datum: an absent or empty array gives a node no children
HasChildren(d) ==
  IF "children" \in DOMAIN d THEN d.children # <<>> ELSE FALSE

\* the names the layout is given, in ascending order of their code units
NameOrder ==
  <<"Animalia", "Cervidae", "Corvidae", "Leporidae", "Metazoa", "Unknown">>

\* the leaf labels the layout is given, in ascending order of their code units
LabelOrder ==
  <<SpeciesItem([species |-> CervusElaphus, count |-> 1,
                 interaction_type |-> "preysOn"]).name,
    SpeciesItem([species |-> LepusTimidus, count |-> 1,
                 interaction_type |-> "preysOn"]).name,
    SpeciesItem([species |-> QuercusRobur, count |-> 1,
                 interaction_type |-> "preysOn"]).name>>

PositionIn(order, name) ==
  CHOOSE i \in 1..Len(order) : order[i] = name

\* d3.ascending(a.data.name, b.data.name) < 0 for two children of one node
\* at the given depth: family and kingdom names are strings, leaf names are
\* labels
Ascending(a, b, depth) ==
  LET order == IF depth = 3 THEN LabelOrder ELSE NameOrder
  IN PositionIn(order, a.name) < PositionIn(order, b.name)

\* Array.prototype.sort with that comparator: stable
RECURSIVE InsertByName(_, _, _)
InsertByName(sorted, n, depth) ==
  IF sorted = <<>> THEN <<n>>
  ELSE IF Ascending(n, Head(sorted), depth)
       THEN <<n>> \o sorted
       ELSE <<Head(sorted)>> \o InsertByName(Tail(sorted), n, depth)

RECURSIVE SortChildren(_, _)
SortChildren(children, depth) ==
  IF children = <<>> THEN <<>>
  ELSE InsertByName(SortChildren(SubSeq(children, 1, Len(children) - 1), depth),
                    children[Len(children)], depth)

\* d3.hierarchy(data).sort(compare): the children of every node are sorted
RECURSIVE SortNode(_, _)
SortNode(d, depth) ==
  IF ~HasChildren(d) THEN [name |-> d.name, children |-> <<>>]
  ELSE [name |-> d.name,
        children |->
          SortChildren([i \in 1..Len(d.children) |->
                          SortNode(d.children[i], depth + 1)], depth + 1)]

\* lengths in units of 1/480, so that 1.1 / depth and the midpoints below
\* are whole numbers: 1.1 is 528 and 1 is 480
UnitsPerOne == 480

\* .separation((a, b) => (a.parent === b.parent ? 1.1 : 2.2) / a.depth)
Separation(sameParent, depth) ==
  (IF sameParent THEN 528 ELSE 1056) \div depth

RECURSIVE MaxOf(_)
MaxOf(S) ==
  LET x == CHOOSE y \in S : TRUE
  IN IF S = {x} THEN x ELSE Max2(x, MaxOf(S \ {x}))

Min2(a, b) == IF a <= b THEN a ELSE b

\* preliminary positions of the children of one node (firstWalk and apportion
\* of d3.tree over the children from left to right). A child is placed at the
\* separation from its left sibling, and pushed further right by the largest
\* shift that keeps, at every depth below, the left contour of its subtree at
\* the cousin separation from the right contour of the subtrees to its left.
\* Every subtree of a hierarchy reaches the leaf depth, so that right contour
\* is the one of the left sibling, and the shift moves this child alone.
RECURSIVE ChildZ(_, _, _)
ChildZ(placed, depth, z) ==
  LET i == Len(z) + 1
  IN IF i > Len(placed) THEN z
     ELSE IF i = 1 THEN ChildZ(placed, depth, <<0>>)
     ELSE LET w == placed[i - 1]
              v == placed[i]
              below == 1..Min2(Len(w.rc), Len(v.lc))
              shifts == {w.rc[d] - v.lc[d] + Separation(FALSE, depth + d) :
                           d \in below}
          IN ChildZ(placed, depth,
                    Append(z, z[i - 1]
                              + MaxOf({Separation(TRUE, depth)} \cup shifts)))

\* firstWalk of d3.tree: a subtree with the offsets of its children from its
\* root and its left and right contours (offsets from its root per depth
\* below). The root of the subtree sits at the midpoint of its first and its
\* last child.
RECURSIVE FirstWalk(_, _)
FirstWalk(node, depth) ==
  IF node.children = <<>>
  THEN [name |-> node.name, off |-> 0, kids |-> <<>>, lc |-> <<>>, rc |-> <<>>]
  ELSE LET placed == [i \in 1..Len(node.children) |->
                        FirstWalk(node.children[i], depth + 1)]
           z == ChildZ(placed, depth + 1, <<>>)
           midpoint == (z[1] + z[Len(z)]) \div 2
           kids == [i \in 1..Len(placed) |->
                      [placed[i] EXCEPT !.off = z[i] - midpoint]]
           first == kids[1]
           last == kids[Len(kids)]
       IN [name |-> node.name, off |-> 0, kids |-> kids,
           lc |-> <<first.off>> \o
                  [d \in 1..Len(first.lc) |-> first.off + first.lc[d]],
           rc |-> <<last.off>> \o
                  [d \in 1..Len(last.rc) |-> last.off + last.rc[d]]]

\* secondWalk of d3.tree: node.x of every node, in the order of eachBefore
RECURSIVE SecondWalk(_, _, _, _)
SecondWalk(placed, path, depth, x) ==
  <<[path |-> path, depth |-> depth, name |-> placed.name, x |-> x,
     degree |-> Len(placed.kids)]>>
  \o Flatten([i \in 1..Len(placed.kids) |->
                SecondWalk(placed.kids[i], Append(path, i), depth + 1,
                           x + placed.kids[i].off)])

\* the first node of eachBefore with the smallest x, and with the largest
RECURSIVE LeftMost(_, _)
LeftMost(nodes, i) ==
  IF i = 1 THEN 1
  ELSE LET left == LeftMost(nodes, i - 1)
       IN IF nodes[i].x < nodes[left].x THEN i ELSE left

RECURSIVE RightMost(_, _)
RightMost(nodes, i) ==
  IF i = 1 THEN 1
  ELSE LET right == RightMost(nodes, i - 1)
       IN IF nodes[i].x > nodes[right].x THEN i ELSE right

SameParent(a, b) ==
  /\ a.path # <<>>
  /\ b.path # <<>>
  /\ SubSeq(a.path, 1, Len(a.path) - 1) = SubSeq(b.path, 1, Len(b.path) - 1)

\* tree(root) with .size([2 * Math.PI, radius - 120]): the angle of a node is
\* 2 * Math.PI * angle / full
\* (nodes, the result of the two walks, is bound as the one element of a set,
\* so that it is computed once)
TreeLayout(root) ==
  CHOOSE r \in
    {LET left == nodes[LeftMost(nodes, Len(nodes))]
         right == nodes[RightMost(nodes, Len(nodes))]
         s == IF left.path = right.path THEN UnitsPerOne
              ELSE Separation(SameParent(left, right), left.depth) \div 2
         tx == s - left.x
     IN [nodes |-> [i \in 1..Len(nodes) |->
                      [path |-> nodes[i].path, depth |-> nodes[i].depth,
                       name |-> nodes[i].name, degree |-> nodes[i].degree,
                       angle |-> nodes[i].x + tx]],
         full |-> right.x + s + tx] :
     nodes \in {SecondWalk(FirstWalk(root, 0), <<>>, 0, 0)}} : TRUE

----------------------------------------------------------------------------
(* The render effect: useEffect(() => {...}, [data, brandColors]).  brandColors *)
(* is a new object in every render of the component, so the effect runs     *)
(* after every render.                                                      *)

\* what the try block draws into the svg element once that is in the container
DrawStages == <<"layout", "links", "nodes", "labels", "legend">>

\* the svg element of a pass, with the number of stages drawn into it
SvgElement(pass, drawn) ==
  [tag |-> "svg", pass |-> pass, drawn |-> drawn, text |-> ""]

\* the div of the catch block, with vizError.message
ErrorDiv(pass, message) ==
  [tag |-> "div", pass |-> pass, drawn |-> 0, text |-> message]

\* vizContainer.innerHTML = ''
ClearContainer(children) == <<>>

\* the try block: clear, appendChild(svgElement), then the stages up to the
\* one that throws (throwsAt = 0: none does)
TryBlock(children, pass, throwsAt) ==
  Append(ClearContainer(children),
         SvgElement(pass, IF throwsAt = 0 THEN Len(DrawStages) ELSE throwsAt - 1))

\* a catch block that does not clear the container
CatchBlock_NoClear(children, pass, message) ==
  Append(children, ErrorDiv(pass, message))

\* the catch block: clear, appendChild(errorDiv)
CatchBlock(children, pass, message) ==
  Append(ClearContainer(children), ErrorDiv(pass, message))

\* the body of the effect after its guard
RenderEffect(children, pass, throwsAt) ==
  IF throwsAt = 0
  THEN TryBlock(children, pass, throwsAt)
  ELSE CatchBlock(TryBlock(children, pass, throwsAt), pass, DrawStages[throwsAt])

\* the div with ref={vizRef} is part of what the component returns
VizMounted(v, isLoading, err) ==
  /\ err = "null"
  /\ v = "part_004" \/ ~isLoading

\* const width = 1350; const height = 1350
width == 1350
height == 1350

\* no svg element is in the container: there is no gElement and no tree
NoDrawing ==
  [layout |-> [nodes |-> <<>>, full |-> 0], dx |-> 0, dy |-> 0,
   transform |-> <<>>, dragEvents |-> <<>>]

\* the documents setData is called with
RenderDocs ==
  { ArtifactFor(CanisLupus), ArtifactFor(VulpesVulpes),
    [ArtifactFor(CanisLupus) EXCEPT !.name = DefaultDataName(VulpesVulpes)] }

\* tree(root) for each of these documents
RenderLayouts == [doc \in RenderDocs |-> TreeLayout(SortNode(doc, 0))]

\* what a pass of the try block that does not throw leaves: gElement at
\* translate(width/2, height/2), let dx = 0, let dy = 0, and tree(root)
FreshDrawing(doc) ==
  [layout |-> RenderLayouts[doc], dx |-> 0, dy |-> 0,
   transform |-> <<width \div 2, height \div 2>>, dragEvents |-> <<>>]

\* the drawing as it is
CurrentDrawing ==
  [layout |-> layout, dx |-> dx, dy |-> dy, transform |-> transform,
   dragEvents |-> dragEvents]

\* a render of the component with new state, and the effect after it; cleared
\* says that the handler emptied the container itself before
RenderWith(newQuery, newData, newLoading, newError, cleared, throwsAt) ==
  /\ passes < MaxPasses
  /\ searchQuery' = newQuery
  /\ data' = newData
  /\ loading' = newLoading
  /\ error' = newError
  /\ LET stays == /\ VizMounted(variant, loading, error)
                  /\ VizMounted(variant, newLoading, newError)
                  /\ ~cleared
         kept == IF stays THEN container ELSE <<>>
         draws == newData # NoHierarchy /\ VizMounted(variant, newLoading, newError)
         drawing == IF draws
                    THEN (IF throwsAt = 0 THEN FreshDrawing(newData) ELSE NoDrawing)
                    ELSE (IF stays THEN CurrentDrawing ELSE NoDrawing)
     IN /\ container' = IF draws THEN RenderEffect(kept, passes + 1, throwsAt) ELSE kept
        /\ passes' = IF draws THEN passes + 1 ELSE passes
        /\ layout' = drawing.layout
        /\ dx' = drawing.dx
        /\ dy' = drawing.dy
        /\ transform' = drawing.transform
        /\ dragEvents' = drawing.dragEvents
  /\ UNCHANGED <<variant, selectedPredator, searchHistory, tasks, clicks, opened>>
  /\ UNCHANGED <<builderVars, fs, serverVars>>

Rerender(newData, newLoading, newError, cleared, throwsAt) ==
  RenderWith(searchQuery, newData, newLoading, newError, cleared, throwsAt)

RenderInit ==
  /\ variant \in Variants
  /\ data = NoHierarchy
  /\ loading = TRUE
  /\ error = "null"
  /\ selectedPredator = CanisLupus
  /\ searchQuery = <<>>
  /\ searchHistory = <<>>
  /\ tasks = <<>>
  /\ NotDrawn
  /\ fs = {}
  /\ deployment = "none"
  /\ requests = <<>>
  /\ bpc = "off"
  /\ predator_taxon = <<>>
  /\ predator_common_name = <<>>
  /\ predator_info = NULL
  /\ tax_info = NULL
  /\ type_idx = 1
  /\ row_i = 1
  /\ all_interactions = <<>>
  /\ prey_data = <<>>
  /\ taxonomy_data = <<>>
  /\ hierarchy = NoHierarchy
  /\ ret = "none"

\* setData(predatorData); setLoading(false)
DataSet(doc, throwsAt) ==
  /\ doc \in RenderDocs
  /\ Rerender(doc, FALSE, error, FALSE, throwsAt)

\* setLoading(true) at the start of loadData
LoadingSet(throwsAt) ==
  /\ ~loading
  /\ Rerender(data, TRUE, error, FALSE, throwsAt)

\* setError(...); setLoading(false) in a catch block
ErrorSet(throwsAt) ==
  /\ error = "null"
  /\ Rerender(data, FALSE, "Failed to load data", FALSE, throwsAt)

\* handleSearch: vizRef.current.innerHTML = ''; setLoading(true); setError(null)
SearchStarted(throwsAt) ==
  /\ variant = "part_004"
  /\ ~loading
  /\ Rerender(data, TRUE, "null", TRUE, throwsAt)

\* handleSearchChange: setSearchQuery(e.target.value), and the render after it
SearchTyped(text, throwsAt) ==
  /\ variant = "part_004"
  /\ text \in SearchTexts
  /\ text # searchQuery
  /\ RenderWith(text, data, loading, error, FALSE, throwsAt)

\* event.dx and event.dy of a drag event
DragDeltas == {-1, 2}

\* a drawing whose group is moved to the event's own delta, not the sum
DraggedDrawing_LastDelta(d, event) ==
  [d EXCEPT !.dx = event.dx, !.dy = event.dy,
            !.transform = <<width \div 2 + event.dx, height \div 2 + event.dy>>,
            !.dragEvents = Append(d.dragEvents, event)]

\* dx += event.dx; dy += event.dy; gElement.setAttribute("transform", ...)
DraggedDrawing(d, event) ==
  LET x == d.dx + event.dx
      y == d.dy + event.dy
  IN [d EXCEPT !.dx = x, !.dy = y,
               !.transform = <<width \div 2 + x, height \div 2 + y>>,
               !.dragEvents = Append(d.dragEvents, event)]

\* a drag event on the svg element of the container
dragged(ex, ey) ==
  /\ Len(container) = 1
  /\ container[1].tag = "svg"
  /\ Len(dragEvents) < MaxDrags
  /\ LET d == DraggedDrawing(CurrentDrawing, [dx |-> ex, dy |-> ey])
     IN /\ dx' = d.dx
        /\ dy' = d.dy
        /\ transform' = d.transform
        /\ dragEvents' = d.dragEvents
        /\ layout' = d.layout
  /\ UNCHANGED <<container, passes, clicks, opened>>
  /\ UNCHANGED <<builderVars, fs, serverVars, clientVars>>

\* the positions of nameString where /\(([^)]+)\)/ matches: a "(" whose next
\* ")" is not right behind it
MatchStarts(nameString) ==
  {p \in 1..Len(nameString) :
     /\ nameString[p] = "("
     /\ \E q \in (p + 2)..Len(nameString) :
          /\ nameString[q] = ")"
          /\ \A r \in (p + 1)..(q - 1) : nameString[r] # ")"}

\* match[1] of the leftmost match: [^)]+ runs to the next ")"
MatchGroup(nameString) ==
  LET p == CHOOSE m \in MatchStarts(nameString) :
             \A o \in MatchStarts(nameString) : m <= o
      q == CHOOSE c \in (p + 2)..Len(nameString) :
             /\ nameString[c] = ")"
             /\ \A r \in (p + 1)..(c - 1) : nameString[r] # ")"
  IN SubSeq(nameString, p + 1, q - 1)

\* extractScientificName: the text of the first parenthesised group, or the
\* whole string
extractScientificName(nameString) ==
  IF MatchStarts(nameString) # {} /\ MatchGroup(nameString) # <<>>
  THEN Trim(MatchGroup(nameString))
  ELSE Trim(nameString)

\* encodeURIComponent on the pieces the names are made of: letters, "(" and
\* ")" stay, a space becomes %20
encodeURIComponent(s) ==
  [i \in 1..Len(s) |-> IF s[i] = " " THEN "%20" ELSE s[i]]

\* getWikipediaUrl
getWikipediaUrl(scientificName) ==
  <<"https://en.wikipedia.org/wiki/">> \o encodeURIComponent(scientificName)

\* d.data.name as text: the kingdom and family names are single pieces
NameText(d) == IF d.depth \in {1, 2} THEN <<d.name>> ELSE d.name

\* a click handler that only leaves the kingdoms alone
ClickOpens_FamiliesToo(d) == ~(d.depth = 1)

\* the guard of the click handler: not a kingdom, not a family with children
ClickOpens(d) == ~(d.depth = 1 \/ (d.depth = 2 /\ d.degree > 0))

\* node.on("click", ...) for the node at position i of root.descendants()
clicked(i) ==
  /\ Len(container) = 1
  /\ container[1].tag = "svg"
  /\ container[1].drawn >= 3
  /\ i \in 1..Len(layout.nodes)
  /\ Len(clicks) < MaxClicks
  /\ clicks' = Append(clicks, i)
  /\ opened' = IF ClickOpens(layout.nodes[i])
               THEN Append(opened,
                           [url |-> getWikipediaUrl(
                                      extractScientificName(NameText(layout.nodes[i]))),
                            target |-> "_blank"])
               ELSE opened
  /\ UNCHANGED <<container, passes, layout, dx, dy, transform, dragEvents>>
  /\ UNCHANGED <<builderVars, fs, serverVars, clientVars>>

RenderNext ==
  \/ \E throwsAt \in 0..Len(DrawStages) :
       \/ \E doc \in RenderDocs : DataSet(doc, throwsAt)
       \/ LoadingSet(throwsAt)
       \/ ErrorSet(throwsAt)
       \/ SearchStarted(throwsAt)
       \/ \E text \in SearchTexts : SearchTyped(text, throwsAt)
  \/ \E ex \in DragDeltas, ey \in DragDeltas : dragged(ex, ey)

RenderSpec == RenderInit /\ [][RenderNext]_vars

----------------------------------------------------------------------------
(* The layout on its own: tree(root) for hierarchies of every shape *)

\* the hierarchies given to the layout: up to two kingdoms, in the order the
\* script may emit them, each with 1..MaxFamilies families of 1..MaxLeaves
\* leaves
LayoutKingdoms == <<"Unknown", "Animalia">>
LayoutFamilies == <<"Leporidae", "Cervidae", "Unknown", "Corvidae">>
LayoutSpecies == <<QuercusRobur, CervusElaphus, LepusTimidus,
                   CervusElaphus>>

KingdomShapes ==
  UNION {[1..n -> 1..MaxLeaves] : n \in 1..MaxFamilies}

LayoutShapes ==
  {<<>>} \cup UNION {[1..n -> KingdomShapes] : n \in 1..Len(LayoutKingdoms)}

LayoutDoc(shape) ==
  [name |-> <<"Wolf">>,
   children |->
     [k \in 1..Len(shape) |->
        [name |-> LayoutKingdoms[k],
         children |->
           [f \in 1..Len(shape[k]) |->
              [name |-> PoolItem(LayoutFamilies, f + k - 1),
               children |->
                 [l \in 1..shape[k][f] |->
                    SpeciesItem([species |-> PoolItem(LayoutSpecies, l + f - 1),
                                 count |-> l,
                                 interaction_type |-> "preysOn"])]]]]]]

LayoutInit ==
  /\ variant \in Variants
  /\ \E shape \in LayoutShapes : data = LayoutDoc(shape)
  /\ loading = FALSE
  /\ error = "null"
  /\ selectedPredator = CanisLupus
  /\ searchQuery = <<>>
  /\ searchHistory = <<>>
  /\ tasks = <<>>
  /\ NotDrawn
  /\ fs = {}
  /\ deployment = "none"
  /\ requests = <<>>
  /\ bpc = "off"
  /\ predator_taxon = <<>>
  /\ predator_common_name = <<>>
  /\ predator_info = NULL
  /\ tax_info = NULL
  /\ type_idx = 1
  /\ row_i = 1
  /\ all_interactions = <<>>
  /\ prey_data = <<>>
  /\ taxonomy_data = <<>>
  /\ hierarchy = NoHierarchy
  /\ ret = "none"

\* const root = d3.hierarchy(data).sort(...); tree(root)
LayoutRoot ==
  /\ layout.nodes = <<>>
  /\ layout' = TreeLayout(SortNode(data, 0))
  /\ UNCHANGED <<builderVars, fs, serverVars, clientVars, container, passes>>
  /\ UNCHANGED <<dx, dy, transform, dragEvents, clicks, opened>>

LayoutNext == LayoutRoot

LayoutSpec == LayoutInit /\ [][LayoutNext]_vars

----------------------------------------------------------------------------
(* The click handler on its own: a complete drawing and the clicks on its   *)
(* nodes                                                                    *)

\* species names as the database gives them, with and without a subgenus or
\* an authority in parentheses
FelisLynxRufus == <<"Felis", " ", "(", "Lynx", ")", " ", "rufus">>
CorvusCoraxAuthority == <<"Corvus", " ", "corax", " ", "(", "Linnaeus", ")">>
ClickSpecies == {CervusElaphus, LepusTimidus, FelisLynxRufus, CorvusCoraxAuthority}

\* the artifact of a predator with one prey species
ClickDoc(species) ==
  [name |-> ArtifactFor(CanisLupus).name,
   children |->
     <<[name |-> "Animalia",
        children |->
          <<[name |-> "Unknown",
             children |-> <<SpeciesItem([species |-> species, count |-> 1,
                                         interaction_type |-> "preysOn"])>>]>>]>>]

ClickDocs == RenderDocs \cup {ClickDoc(species) : species \in ClickSpecies}

\* tree(root) for each of these documents
ClickLayouts == [doc \in ClickDocs |-> TreeLayout(SortNode(doc, 0))]

\* the positions a click can land on: the nodes of the drawings
ClickPositions == UNION {DOMAIN ClickLayouts[doc].nodes : doc \in ClickDocs}

\* the component after a pass that has drawn the document completely
ClickInit ==
  /\ variant \in Variants
  /\ data \in ClickDocs
  /\ loading = FALSE
  /\ error = "null"
  /\ selectedPredator = CanisLupus
  /\ searchQuery = <<>>
  /\ searchHistory = <<>>
  /\ tasks = <<>>
  /\ container = <<SvgElement(1, Len(DrawStages))>>
  /\ passes = 1
  /\ layout = ClickLayouts[data]
  /\ dx = 0
  /\ dy = 0
  /\ transform = <<width \div 2, height \div 2>>
  /\ dragEvents = <<>>
  /\ clicks = <<>>
  /\ opened = <<>>
  /\ fs = {}
  /\ deployment = "none"
  /\ requests = <<>>
  /\ bpc = "off"
  /\ predator_taxon = <<>>
  /\ predator_common_name = <<>>
  /\ predator_info = NULL
  /\ tax_info = NULL
  /\ type_idx = 1
  /\ row_i = 1
  /\ all_interactions = <<>>
  /\ prey_data = <<>>
  /\ taxonomy_data = <<>>
  /\ hierarchy = NoHierarchy
  /\ ret = "none"

ClickNext == \E i \in ClickPositions : clicked(i)

ClickSpec == ClickInit /\ [][ClickNext]_vars

----------------------------------------------------------------------------
(* Properties of the emitted hierarchy *)

\* the run returned TRUE: hierarchy is the document written to the artifact
Emitted == bpc = "done" /\ ret = "TRUE"

\* the leaves of a hierarchy, each with the names of its kingdom and family node
LeavesOfFamily(k, f) ==
  [i \in 1..Len(f.children) |->
     [kingdom |-> k.name, family |-> f.name, name |-> f.children[i].name,
      value |-> f.children[i].value,
      interaction_type |-> f.children[i].interaction_type]]

LeavesOfKingdom(k) ==
  Flatten([j \in 1..Len(k.children) |-> LeavesOfFamily(k, k.children[j])])

LeavesOf(h) ==
  Flatten([j \in 1..Len(h.children) |-> LeavesOfKingdom(h.children[j])])

LeafLabel(species) == species \o <<" ", "(">> \o species \o <<")">>

\* the number of raw interaction records of a species and interaction type
RawRecords(species, type) ==
  Cardinality({i \in 1..Len(all_interactions) :
                 /\ all_interactions[i].target_taxon_name = species
                 /\ all_interactions[i].interaction_type = type})

RawSpecies == {all_interactions[i].target_taxon_name : i \in 1..Len(all_interactions)}

\* the filter as the specification states it
SurvivesFilter(r) ==
  \/ r.kingdom \in {"Animalia", "Metazoa"}
  \/ r.class \in {"Mammalia", "Aves", "Actinopterygii", "Reptilia", "Amphibia"}
  \/ r.kingdom = "Unknown"
  \/ r.class = "Unknown"

\* C1: when the filter removes every resolved row of a run that found raw
\* interactions, the run returns "no data found" and writes no artifact; no
\* written hierarchy has a root with an empty children list.
C1_NoTreeWhenAllFiltered ==
  /\ (/\ bpc = "done"
      /\ Len(all_interactions) > 0
      /\ \A i \in 1..Len(taxonomy_data) : ~SurvivesFilter(taxonomy_data[i]))
     => (ret = "FALSE" /\ fs = {})
  /\ \A f \in fs : f.content.children # <<>>

\* C6: no two leaves of an emitted hierarchy have the same name and the same
\* interaction_type.
C6_LeavesUniquePerPair ==
  Emitted =>
    LET leaves == LeavesOf(hierarchy)
    IN \A i, j \in 1..Len(leaves) :
         (i # j) => ~(/\ leaves[i].name = leaves[j].name
                      /\ leaves[i].interaction_type = leaves[j].interaction_type)

\* C7: every leaf of the emitted hierarchy has value >= 1, and the value is
\* the number of raw interaction records with the leaf's species and
\* interaction type (1 when no raw record matches).
C7_LeafValueIsRecordCount ==
  Emitted =>
    LET leaves == LeavesOf(hierarchy)
    IN \A i \in 1..Len(leaves) :
         /\ leaves[i].value >= 1
         /\ \E sp \in RawSpecies :
              /\ leaves[i].name = LeafLabel(sp)
              /\ leaves[i].value =
                   IF RawRecords(sp, leaves[i].interaction_type) = 0 THEN 1
                   ELSE RawRecords(sp, leaves[i].interaction_type)

\* a species with two interaction types, one of them with two raw records,
\* has been emitted with the values 2 and 1
C7_Witness ==
  /\ Emitted
  /\ LET leaves == LeavesOf(hierarchy)
     IN \E i, j \in 1..Len(leaves) :
          /\ leaves[i].name = leaves[j].name
          /\ leaves[i].value = 2
          /\ leaves[i].interaction_type # leaves[j].interaction_type
          /\ leaves[j].value = 1

\* C8: in every emitted hierarchy each kingdom node has at least one family
\* node and each family node has at least one species leaf.
C8_NoEmptyChildren ==
  Emitted =>
    \A k \in 1..Len(hierarchy.children) :
      /\ Len(hierarchy.children[k].children) >= 1
      /\ \A f \in 1..Len(hierarchy.children[k].children) :
           Len(hierarchy.children[k].children[f].children) >= 1

\* a hierarchy with two kingdom nodes that hold different families
C8_Witness ==
  /\ Emitted
  /\ Len(hierarchy.children) >= 2
  /\ hierarchy.children[1].children[1].name # hierarchy.children[2].children[1].name

\* the leaves that stand for rows of a species, interaction type and family
LeavesFor(leaves, species, type, family) ==
  {i \in 1..Len(leaves) :
     /\ leaves[i].name = LeafLabel(species)
     /\ leaves[i].interaction_type = type
     /\ leaves[i].family = family}

\* the resolved rows of a species, interaction type and family that satisfy
\* the stated filter
SurvivorsFor(species, type, family) ==
  {i \in 1..Len(taxonomy_data) :
     /\ taxonomy_data[i].species = species
     /\ taxonomy_data[i].interaction_type = type
     /\ taxonomy_data[i].family = family
     /\ SurvivesFilter(taxonomy_data[i])}

TypesOf(species) ==
  {all_interactions[i].interaction_type :
     i \in {j \in 1..Len(all_interactions) :
              all_interactions[j].target_taxon_name = species}}

\* C10: a species that occurs in the raw interactions with two interaction
\* types (and whose resolved rows pass the filter) yields exactly two leaves,
\* of the same name, under the same kingdom and family node, one per type.
C10_TwoTypesTwoLeaves ==
  Emitted =>
    \A sp \in RawSpecies :
      (/\ Cardinality(TypesOf(sp)) = 2
       /\ \A i \in 1..Len(taxonomy_data) :
            taxonomy_data[i].species = sp => SurvivesFilter(taxonomy_data[i]))
      => LET leaves == LeavesOf(hierarchy)
             mine == {i \in 1..Len(leaves) : leaves[i].name = LeafLabel(sp)}
         IN /\ Cardinality(mine) = 2
            /\ \A i, j \in mine :
                 /\ leaves[i].kingdom = leaves[j].kingdom
                 /\ leaves[i].family = leaves[j].family
                 /\ (i # j) => leaves[i].interaction_type # leaves[j].interaction_type

----------------------------------------------------------------------------
(* Properties of the fetch endpoint *)

\* the request has been taken up by the route handler
Handled(r) == r.stage # "idle"

\* the artifact name the specification gives: every space an underscore
ArtifactPath(predator) ==
  dataDir \o [i \in 1..Len(predator) |-> IF predator[i] = " " THEN "_" ELSE predator[i]]
          \o <<"_prey_hierarchy.json">>

\* C3: a request whose predator parameter holds a character outside
\* [A-Za-z0-9 .] is answered with HTTP 400 and never starts the Rscript process.
C3_InvalidPredatorRejected ==
  \A id \in DOMAIN requests :
    (/\ Handled(requests[id])
     /\ \E i \in 1..Len(requests[id].predator) : ~AllowedPiece(requests[id].predator[i]))
    => (requests[id].status = 400 /\ ~requests[id].spawned)

\* C4: for an accepted predator taxon the file name the builder writes, the
\* one whose existence the endpoint checks and the one the renderer reads are
\* the same: the taxon with every space replaced by an underscore, followed
\* by "_prey_hierarchy.json".
C4_SameArtifactName ==
  \A id \in DOMAIN requests :
    LET r == requests[id]
    IN /\ (r.written # <<>>) => r.written = ArtifactPath(r.predator)
       /\ (r.checked # <<>>) => r.checked = ArtifactPath(r.predator)
       /\ (r.read # <<>>) => r.read = ArtifactPath(r.predator)

\* C5: in the handlers that check for the artifact, whenever a request is
\* answered: an answer of success implies that the artifact of its predator
\* exists; and a request whose build found no interactions (its process ended
\* normally, without an error report) is answered with 404 and the artifact of
\* its predator does not exist once it has been answered.
C5_Answered(id) ==
  /\ requests[id].stage = "exited"
  /\ requests'[id].stage = "responded"

C5_SuccessIffArtifact ==
  [][(deployment \in {"part_001", "server_js"}) =>
       \A id \in DOMAIN requests :
         C5_Answered(id) =>
           /\ (requests'[id].status = 200)
                => FileExists(fs', ArtifactPath(requests'[id].predator))
           /\ (/\ requests'[id].ret = "FALSE"
               /\ requests'[id].error = "none"
               /\ ~StderrReportsError(requests'[id].stderr))
                => /\ requests'[id].status = 404
                   /\ ~FileExists(fs', ArtifactPath(requests'[id].predator))]_vars


----------------------------------------------------------------------------
(* Properties of the renderer *)

\* every started call of loadData and handleSearch has run to its end
AllFetchesCompleted == \A t \in DOMAIN tasks : tasks[t].pc = "done"

\* the calls the user's own selections and searches started (a loadData that
\* a completed search started is part of that search)
UserRequests == {t \in DOMAIN tasks : tasks[t].by # "handleSearch"}

\* the predator of the latest of them
LastRequested ==
  tasks[CHOOSE t \in UserRequests : \A u \in UserRequests : u <= t].predator

\* the document is the predator's artifact, or the default one relabelled for it
BelongsTo(document, predator) ==
  \/ document = ArtifactFor(predator)
  \/ document.name = DefaultDataName(predator)

\* C2: once every fetch in flight has completed (and none of them left an
\* error message), the hierarchy on display belongs to the predator requested
\* last and that predator is the selected one, whatever the order in which
\* the fetches completed.
C2_DisplayIsLatestRequest ==
  (/\ variant \in Variants
   /\ AllFetchesCompleted
   /\ error = "null"
   /\ data # NoHierarchy)
  => /\ BelongsTo(data, LastRequested)
     /\ selectedPredator = LastRequested


----------------------------------------------------------------------------
(* Further properties of the emitted hierarchy *)

\* the leaves of a species, interaction type and family under a kingdom node
LeavesUnder(leaves, kingdom, species, type, family) ==
  {i \in LeavesFor(leaves, species, type, family) : leaves[i].kingdom = kingdom}

RecognizedAnimalClasses == {"Mammalia", "Aves", "Actinopterygii", "Reptilia", "Amphibia"}

\* the kingdom node under which the specification places a resolved row
PlacedKingdom(r) ==
  IF r.kingdom = "Unknown" /\ r.class \in RecognizedAnimalClasses
  THEN "Animalia" ELSE r.kingdom

\* the surviving resolved rows of a species, interaction type and family that
\* are placed under a kingdom node
RowsPlacedUnder(kingdom, species, type, family) ==
  {i \in SurvivorsFor(species, type, family) :
     PlacedKingdom(taxonomy_data[i]) = kingdom}

----------------------------------------------------------------------------
(* Further properties of the fetch endpoint *)

\* the request has been answered by the callback of exec()
AnsweredByCallback(r) == r.spawned /\ r.stage \in {"responded", "read"}

\* C12: in the handlers that set the 10-minute timeout, a request whose
\* process was ended by the timeout is answered with 504, a request whose
\* process failed in another way is answered with 500, and 504 is sent for
\* nothing but the timeout.
C12_TimeoutIsDistinct ==
  (deployment \in {"part_001", "server_js"}) =>
    \A id \in DOMAIN requests :
      LET r == requests[id]
      IN AnsweredByCallback(r) =>
           /\ (r.error = "SIGTERM") => r.status = 504
           /\ (r.error = "exit") => r.status = 500
           /\ (r.status = 504) => r.error = "SIGTERM"

\* one request has been answered after its timeout and another after the
\* script stopped with an error
C12_Witness ==
  /\ deployment \in {"part_001", "server_js"}
  /\ \E id1, id2 \in DOMAIN requests :
       /\ AnsweredByCallback(requests[id1])
       /\ requests[id1].error = "SIGTERM" /\ requests[id1].status = 504
       /\ AnsweredByCallback(requests[id2])
       /\ requests[id2].error = "exit" /\ requests[id2].status = 500


----------------------------------------------------------------------------
(* Further properties of the renderer *)

\* a call ends in this step
Ends(t) ==
  /\ t \in DOMAIN tasks
  /\ tasks[t].pc # "done"
  /\ tasks'[t].pc = "done"

\* a call ends in this step after the read of its predator's artifact failed,
\* or (handleSearch) after the fetch trigger failed
EndsAfterFailure(t) ==
  /\ Ends(t)
  /\ \/ ~FileExists(fs, ClientJsonFilePath(tasks[t].predator))
     \/ tasks[t].kind = "handleSearch" /\ tasks[t].pc = "post"

\* '<requested predator> (using Gray wolf data)'
FallbackLabel(predator) == predator \o <<" ", "(", "using Gray wolf data", ")">>

----------------------------------------------------------------------------
(* Properties of the render effect *)

\* C14: the container never holds more than one element; an svg element in
\* it is a complete drawing, and any element in it was put there by the latest
\* pass (so nothing of an earlier pass and no partial drawing stays next to an
\* error message); and whenever there is data and the container is part of
\* the page, the latest pass has left exactly one element in it.
C14_ClearThenDrawOrError ==
  /\ Len(container) <= 1
  /\ \A i \in 1..Len(container) :
       /\ container[i].pass = passes
       /\ container[i].tag \in {"svg", "div"}
       /\ (container[i].tag = "svg") => container[i].drawn = Len(DrawStages)
  /\ (data # NoHierarchy /\ VizMounted(variant, loading, error))
       => Len(container) = 1

\* a pass that threw while drawing, after an earlier pass, has left the
\* error message alone in the container
C14_Witness ==
  /\ passes >= 2
  /\ Len(container) = 1
  /\ container[1].tag = "div"
  /\ container[1].text = "nodes"

\* tree(root) has run
LaidOut == layout.nodes # <<>>

LayoutLeaves == {i \in DOMAIN layout.nodes : layout.nodes[i].degree = 0
                                            /\ layout.nodes[i].depth > 0}

ChildrenOf(i) ==
  {j \in DOMAIN layout.nodes :
     /\ layout.nodes[j].depth = layout.nodes[i].depth + 1
     /\ SubSeq(layout.nodes[j].path, 1, layout.nodes[i].depth)
          = layout.nodes[i].path}

RECURSIVE SumOfAngles(_)
SumOfAngles(S) ==
  IF S = {} THEN 0
  ELSE LET j == CHOOSE k \in S : TRUE
       IN layout.nodes[j].angle + SumOfAngles(S \ {j})

\* C15: for every hierarchy with more than one leaf, the layout gives every
\* leaf an angle of its own, and gives every node with children the
\* arithmetic mean of the angles of all its children
C15_DistinctLeavesMeanParents ==
  (LaidOut /\ Cardinality(LayoutLeaves) > 1) =>
    /\ \A i, j \in LayoutLeaves :
         i # j => layout.nodes[i].angle # layout.nodes[j].angle
    /\ \A i \in DOMAIN layout.nodes :
         layout.nodes[i].degree > 0 =>
           layout.nodes[i].degree * layout.nodes[i].angle
             = SumOfAngles(ChildrenOf(i))

\* prey_data_filtered of the run
SurvivingRows == PreyDataFiltered(taxonomy_data, all_interactions)

\* C16: filtering is idempotent. The filter, the kingdom assignment and the
\* sort applied to the rows that survived them remove no row, change no
\* kingdom and keep the order, and the hierarchy built from the result is the
\* emitted one
C16_FilterIdempotent ==
  Emitted =>
    /\ Len(SelectSeq(SurvivingRows, KeepRow)) = Len(SurvivingRows)
    /\ \A i \in 1..Len(SurvivingRows) :
         NormalizeKingdom(SurvivingRows[i]).kingdom = SurvivingRows[i].kingdom
    /\ FilterRows(SurvivingRows) = SurvivingRows
    /\ BuildHierarchy(predator_common_name, predator_taxon,
                      FilterRows(SurvivingRows)) = hierarchy

\* a run in which the filter dropped a row, assigned a kingdom, and kept two
\* rows of equal count
C16_Witness ==
  /\ Emitted
  /\ Len(SurvivingRows) < Len(PreyDataComplete(taxonomy_data, all_interactions))
  /\ \E i \in 1..Len(taxonomy_data) :
       /\ taxonomy_data[i].kingdom = "Unknown"
       /\ taxonomy_data[i].class \in animal_classes
  /\ \E i, j \in 1..Len(SurvivingRows) :
       i # j /\ SurvivingRows[i].count = SurvivingRows[j].count

\* the species-rank rows of the record the predator lookup returned
SpeciesRows ==
  IF predator_info.is_null THEN {}
  ELSE {i \in 1..Len(predator_info.rows) : predator_info.rows[i].rank = "species"}

ExpectedCommon ==
  IF SpeciesRows # {}
  THEN <<predator_info.rows[CHOOSE i \in SpeciesRows : TRUE].name>>
  ELSE predator_taxon

\* C17: the name of the root node is "<common> (<predator_taxon>)", where
\* <common> is the name of the species-rank row of the predator's taxonomy
\* lookup when the lookup returned a record with such a row, and is
\* predator_taxon otherwise
C17_RootName ==
  Emitted =>
    hierarchy.name = ExpectedCommon \o <<" ", "(">> \o predator_taxon \o <<")">>

\* an emitted hierarchy whose predator lookup had a species-rank row
C17_Witness ==
  /\ Emitted
  /\ SpeciesRows # {}
  /\ ExpectedCommon # predator_taxon

\* the surviving rows in the order of the join, under the kingdom they are
\* placed in
EncounteredRows ==
  LET complete == PreyDataComplete(taxonomy_data, all_interactions)
      kept == SelectSeq(complete, SurvivesFilter)
  IN [i \in 1..Len(kept) |-> [kept[i] EXCEPT !.kingdom = PlacedKingdom(kept[i])]]

\* the place of an encountered row among the rows sorted by count descending
\* with ties in encounter order
SortedPlace(rows, i) ==
  1 + Cardinality({j \in 1..Len(rows) :
                     \/ rows[j].count > rows[i].count
                     \/ rows[j].count = rows[i].count /\ j < i})

RowsByCount ==
  LET rows == EncounteredRows
  IN [p \in 1..Len(rows) |->
        rows[CHOOSE i \in 1..Len(rows) : SortedPlace(rows, i) = p]]

\* the first place among the sorted rows of a row of a kingdom (and family)
FirstOfKingdom(sorted, k) ==
  CHOOSE p \in 1..Len(sorted) :
    /\ sorted[p].kingdom = k
    /\ \A q \in 1..(p - 1) : sorted[q].kingdom # k

FirstOfFamily(sorted, k, f) ==
  CHOOSE p \in 1..Len(sorted) :
    /\ sorted[p].kingdom = k /\ sorted[p].family = f
    /\ \A q \in 1..(p - 1) : ~(sorted[q].kingdom = k /\ sorted[q].family = f)

LeafOfRow(r) ==
  [name |-> LeafLabel(r.species), value |-> r.count,
   interaction_type |-> r.interaction_type]

\* C18: in every emitted hierarchy the leaves of a family node are the rows of
\* that kingdom and family in the order of the rows sorted by count
\* descending (ties in encounter order), so their values do not increase;
\* kingdom nodes and the family nodes of a kingdom are in the order of their
\* first appearance among the sorted rows; and the first leaf of the first
\* family of the first kingdom has the largest value of the tree
C18_OrderedByCount ==
  Emitted =>
    LET ks == hierarchy.children
        leaves == LeavesOf(hierarchy)
        sorted == RowsByCount
    IN /\ {ks[a].name : a \in 1..Len(ks)}
            = {sorted[p].kingdom : p \in 1..Len(sorted)}
       /\ \A a, b \in 1..Len(ks) :
            a < b => FirstOfKingdom(sorted, ks[a].name)
                       < FirstOfKingdom(sorted, ks[b].name)
       /\ \A a \in 1..Len(ks) :
            LET fs_ == ks[a].children
                InKingdom(r) == r.kingdom = ks[a].name
                kingdom_rows == SelectSeq(sorted, InKingdom)
            IN /\ {fs_[c].name : c \in 1..Len(fs_)}
                    = {kingdom_rows[p].family : p \in 1..Len(kingdom_rows)}
               /\ \A c, d \in 1..Len(fs_) :
                    c < d => FirstOfFamily(sorted, ks[a].name, fs_[c].name)
                               < FirstOfFamily(sorted, ks[a].name, fs_[d].name)
               /\ \A c \in 1..Len(fs_) :
                    LET InFamily(r) == r.family = fs_[c].name
                        rows == SelectSeq(kingdom_rows, InFamily)
                    IN /\ fs_[c].children
                            = [i \in 1..Len(rows) |-> LeafOfRow(rows[i])]
                       /\ \A i, j \in 1..Len(fs_[c].children) :
                            i < j => fs_[c].children[i].value
                                       >= fs_[c].children[j].value
       /\ \A i \in 1..Len(leaves) : leaves[1].value >= leaves[i].value

\* an emitted hierarchy with two kingdom nodes, a family with two leaves of
\* different value, and rows whose encounter order is not their sorted order
C18_Witness ==
  /\ Emitted
  /\ Len(hierarchy.children) >= 2
  /\ \E a \in 1..Len(hierarchy.children) :
       \E c \in 1..Len(hierarchy.children[a].children) :
         LET l == hierarchy.children[a].children[c].children
         IN Len(l) >= 2 /\ l[1].value > l[2].value
  /\ RowsByCount # EncounteredRows

\* the ranks the taxonomy loop resolves
ResolvedRanks == {"kingdom", "class", "order", "family"}

\* the names a list of rank/name pairs gives to a rank
NamesGiven(pairs, rank) ==
  IF \E i \in 1..Len(pairs) : pairs[i].rank = rank
  THEN {pairs[i].name : i \in {j \in 1..Len(pairs) : pairs[j].rank = rank}}
  ELSE {"Unknown"}

ResolvedNames(row, info, rank) ==
  IF ~info.is_null THEN NamesGiven(info.rows, rank)
  ELSE IF ~row.target_taxon_path.is_na
       THEN NamesGiven(row.target_taxon_path.items, rank)
       ELSE {"Unknown"}

RankOf(r, rank) ==
  CASE rank = "kingdom" -> r.kingdom
    [] rank = "class" -> r.class
    [] rank = "order" -> r.order
    [] rank = "family" -> r.family

\* C19: one iteration of the taxonomy loop appends exactly one row. Its
\* kingdom, class, order and family are the names of those ranks in the
\* record the lookup returned; when the lookup returned none, they are the
\* names of the "rank:name" items of those ranks in the taxon path; when
\* there is no path either, they are "Unknown". A rank that the record or
\* the path lacks is "Unknown".
C19_ResolutionOrder ==
  [][bpc = "taxonomy" =>
       /\ Len(taxonomy_data') = Len(taxonomy_data) + 1
       /\ LET new == taxonomy_data'[Len(taxonomy_data')]
              row == prey_data[row_i]
          IN /\ new.species = row.target_taxon_name
             /\ new.interaction_type = row.interaction_type
             /\ \A rank \in ResolvedRanks :
                  RankOf(new, rank) \in ResolvedNames(row, tax_info', rank)]_vars

\* the kingdoms the filter treats as animal or uncertain
AnimalOrUnknownKingdoms == {"Animalia", "Metazoa", "Unknown"}

\* C20: in every emitted hierarchy, a row whose resolved kingdom is a known
\* non-animal kingdom (not "Animalia", "Metazoa" or "Unknown") has no leaf
\* under a node of that kingdom, and every kingdom node is named "Animalia",
\* "Metazoa" or "Unknown"
C20_NonAnimalDropped ==
  Emitted =>
    LET leaves == LeavesOf(hierarchy)
    IN /\ \A i \in 1..Len(taxonomy_data) :
            taxonomy_data[i].kingdom \notin AnimalOrUnknownKingdoms =>
              LeavesUnder(leaves, taxonomy_data[i].kingdom,
                          taxonomy_data[i].species,
                          taxonomy_data[i].interaction_type,
                          taxonomy_data[i].family) = {}
       /\ \A a \in 1..Len(hierarchy.children) :
            hierarchy.children[a].name \in AnimalOrUnknownKingdoms

\* the step is a user interface event that leaves the hierarchy as it is: the
\* search box is typed into, or the loading flag is raised
IsUiOnlyStep ==
  /\ data' = data
  /\ searchQuery' # searchQuery \/ (~loading /\ loading')

\* C21: the render pass runs only when the hierarchy data changes. A user
\* interface event that leaves the hierarchy as it is (typing in the search
\* box, raising the loading flag) draws nothing anew and leaves the
\* accumulated pan offset as it is
C21_RebuildOnlyOnDataChange ==
  [][IsUiOnlyStep => (passes' = passes /\ dx' = dx /\ dy' = dy)]_vars

\* the sums of the dx and of the dy of a sequence of drag events
RECURSIVE SumOfDx(_)
SumOfDx(events) ==
  IF events = <<>> THEN 0 ELSE Head(events).dx + SumOfDx(Tail(events))

RECURSIVE SumOfDy(_)
SumOfDy(events) ==
  IF events = <<>> THEN 0 ELSE Head(events).dy + SumOfDy(Tail(events))

\* the step is a drag event
IsDragStep == Len(dragEvents') = Len(dragEvents) + 1

\* C22: within one render, after any sequence of drag events the translation
\* of the drawing group is (width/2 + the sum of the events' dx, height/2 +
\* the sum of the events' dy), and a drag event changes nothing else: the
\* layout of the nodes and the elements of the container stay as they are
C22_PanIsCumulative ==
  /\ [](transform # <<>> =>
          transform = <<width \div 2 + SumOfDx(dragEvents),
                        height \div 2 + SumOfDy(dragEvents)>>)
  /\ [][IsDragStep =>
          /\ layout' = layout
          /\ container' = container
          /\ data' = data]_vars

\* a drawing that was dragged twice, by different amounts
C22_Witness ==
  /\ Len(dragEvents) = 2
  /\ dragEvents[1] # dragEvents[2]
  /\ layout.nodes # <<>>
  /\ transform = <<width \div 2 + 1, height \div 2 + 4>>

\* a step that delivers a click event, and the node it lands on
IsClickStep == Len(clicks') = Len(clicks) + 1
ClickedNode == layout.nodes[clicks'[Len(clicks')]]

\* C23: a click on a species leaf opens the reference page for the scientific
\* name extracted from the leaf's label, in a new browsing context; a click on
\* a kingdom node, or on a family node that has children, opens nothing and
\* changes no state
C23_ClickOpensLeavesOnly ==
  [][IsClickStep =>
       /\ (ClickedNode.depth = 3 /\ ClickedNode.degree = 0) =>
            opened' = Append(opened,
                             [url |-> getWikipediaUrl(
                                        extractScientificName(ClickedNode.name)),
                              target |-> "_blank"])
       /\ (ClickedNode.depth = 1 \/ (ClickedNode.depth = 2 /\ ClickedNode.degree > 0)) =>
            /\ opened' = opened
            /\ UNCHANGED <<container, passes, layout, dx, dy, transform, dragEvents>>
            /\ UNCHANGED <<builderVars, fs, serverVars, clientVars>>]_vars

\* a family node with children and a species leaf have been clicked, and only
\* the second click has opened a page, in a new context
C23_Witness ==
  /\ Len(clicks) = 2
  /\ Len(layout.nodes) >= clicks[1]
  /\ Len(layout.nodes) >= clicks[2]
  /\ layout.nodes[clicks[1]].depth = 2
  /\ layout.nodes[clicks[1]].degree > 0
  /\ layout.nodes[clicks[2]].depth = 3
  /\ Len(opened) = 1
  /\ opened[1].target = "_blank"
  /\ opened[1].url = getWikipediaUrl(extractScientificName(layout.nodes[clicks[2]].name))
  /\ opened[1].url[Len(opened[1].url)] # ")"
\* the response is sent in this step
Responds(id) ==
  /\ requests[id].stage \notin {"responded", "read"}
  /\ requests'[id].stage = "responded"

\* the predator has a character outside letters, digits, space and period
HasInvalidCharacters(predator) ==
  \E i \in 1..Len(predator) : predator[i] \in {";", "_", "(", ")", "&", "|"}

\* the status the stated precedence gives a request, the artifact being the
\* predator's file as the builder names it
StatusByPrecedence(r, files) ==
  IF r.predator = <<>> THEN 400
  ELSE IF HasInvalidCharacters(r.predator) THEN 400
  ELSE IF r.error = "SIGTERM" THEN 504
  ELSE IF r.error # "none" THEN 500
  ELSE IF r.stderr \in {"Error: lookup failed", "could not find function"} THEN 500
  ELSE IF ~FileExists(files, OutputPath(dataDir, r.predator)) THEN 404
  ELSE 200

\* C24: every request to the fetch endpoint gets one response, chosen by the
\* fixed precedence: missing predator 400; invalid characters 400; process
\* ended by the timeout 504; other process error 500; normal exit with
\* 'Error:' or 'could not find' in stderr 500, also when the artifact was
\* written; artifact absent 404; otherwise success.  A response once sent is
\* never followed by a second one.
C24_OneResponseByPrecedence ==
  [][(deployment \in {"part_001", "server_js"}) =>
       \A id \in DOMAIN requests :
         /\ Responds(id) => requests'[id].status = StatusByPrecedence(requests'[id], fs)
         /\ (requests[id].stage \in {"responded", "read"}) =>
              requests'[id].status = requests[id].status]_vars
\* the documents a build started by the endpoint can produce
BuiltDocuments ==
  {ScriptHierarchy(predator, result, interactions,
                   [i \in 1..Len(interactions) |-> result]) :
     predator \in ReqPredators, result \in ScriptGbifResults,
     interactions \in ScriptInteractions \ {<<>>}}

\* C25: under every interleaving of fetch triggers and artifact reads, an
\* artifact in the data directory is one complete hierarchy document produced
\* by a single build, also after a build that failed, and every read of an
\* artifact returns such a document
C25_ArtifactCompleteOrAbsent ==
  /\ \A f \in fs : f.content \in BuiltDocuments
  /\ \A id \in DOMAIN requests :
       (requests[id].stage = "read" /\ requests[id].read_status = 200) =>
         requests[id].read_body \in BuiltDocuments
\* a call of handleSearch ends in this step with its search completed
SearchCompletes(t) ==
  /\ t \in DOMAIN tasks
  /\ tasks[t].kind = "handleSearch"
  /\ tasks[t].pc = "get"
  /\ tasks'[t].pc = "done"
  /\ selectedPredator' = tasks[t].predator

\* C26: the search history never has more than five entries, never has two
\* entries whose ids are equal ignoring case, grows only at its front, and
\* only by a predator whose search has completed successfully
C26_HistoryBoundedAndUnique ==
  /\ [](/\ Len(searchHistory) <= 5
        /\ \A i, j \in 1..Len(searchHistory) :
             i # j => ToLowerCase(searchHistory[i]) # ToLowerCase(searchHistory[j]))
  /\ [][searchHistory' # searchHistory =>
          \E t \in DOMAIN tasks :
            /\ SearchCompletes(t)
            /\ Len(searchHistory') <= Len(searchHistory) + 1
            /\ searchHistory'[1] = tasks[t].predator
            /\ \A i \in 2..Len(searchHistory') :
                 searchHistory'[i] = searchHistory[i - 1]]_vars

\* the calls of handleSearch whose fetch has not completed or failed yet
SearchesInFlight ==
  {t \in DOMAIN tasks : tasks[t].kind = "handleSearch" /\ tasks[t].pc # "done"}

\* C27: at most one search-triggered fetch is in flight at a time: loading is
\* true, and so the search button disabled, from the start of a search until
\* its fetch completes or fails, whatever history-item clicks and loads happen
\* in between
C27_OneSearchInFlight ==
  /\ Cardinality(SearchesInFlight) <= 1
  /\ (SearchesInFlight # {}) => loading
\* a call of loadData for the selected predator ends in this step with the
\* predator's own artifact loaded
LoadSucceeds(t) ==
  /\ t \in DOMAIN tasks
  /\ tasks[t].kind = "loadData"
  /\ tasks[t].pc = "fetch"
  /\ tasks'[t].pc = "done"
  /\ tasks[t].predator = selectedPredator
  /\ FileExists(fs, ClientJsonFilePath(tasks[t].predator))

\* C28: an error is not permanent: when a load of the selected predator's
\* artifact completes successfully, after an earlier failure too, no error
\* message is left and the loaded hierarchy is what the component shows
C28_ErrorClearedBySuccessfulLoad ==
  [][\A t \in DOMAIN tasks :
       LoadSucceeds(t) =>
         /\ error' = "null"
         /\ data' = ReadFile(fs, ClientJsonFilePath(tasks[t].predator))
         /\ VizMounted(variant, loading', error')]_vars
\* C29: the scientific name extracted from a leaf label is the species the
\* label was built from, '<species> (<species>)', for every species name, also
\* one that has parentheses in it: a click on the leaf opens the page of that
\* species
C29_LabelRoundTrip ==
  [][IsClickStep /\ ClickedNode.depth = 3 =>
       \A species \in ClickSpecies :
         (ClickedNode.name = LeafLabel(species)) =>
           /\ extractScientificName(ClickedNode.name) = species
           /\ opened' = Append(opened, [url |-> getWikipediaUrl(species),
                                        target |-> "_blank"])]_vars
\* the rows that survive the filter, each with the kingdom it is placed under
PlacedRows ==
  LET kept == SelectSeq(PreyDataComplete(taxonomy_data, all_interactions), SurvivesFilter)
  IN [i \in 1..Len(kept) |->
        [kept[i] EXCEPT !.kingdom =
           IF kept[i].kingdom = "Unknown"
              /\ kept[i].class \in {"Mammalia", "Aves", "Actinopterygii", "Reptilia",
                                    "Amphibia"}
           THEN "Animalia" ELSE kept[i].kingdom]]

\* the places of the leaves of the hierarchy: kingdom, family and leaf index
LeafPlaces ==
  UNION {UNION {{<<a, b, c>> :
                   c \in 1..Len(hierarchy.children[a].children[b].children)} :
                  b \in 1..Len(hierarchy.children[a].children)} :
           a \in 1..Len(hierarchy.children)}

\* the places of the leaves that stand for the row
PlacesOf(r) ==
  {place \in LeafPlaces :
     hierarchy.children[place[1]].children[place[2]].children[place[3]] = SpeciesItem(r)}

\* C30: the emitted tree is a partition of the surviving rows: every surviving
\* row is one leaf, under the kingdom node of its kingdom and the family node
\* of its family; there are as many leaves as surviving rows; no kingdom has
\* two nodes and no family two nodes in one kingdom, so a family name that
\* occurs in two kingdoms has one node in each
C30_TreePartitionsRows ==
  Emitted =>
    /\ Len(LeavesOf(hierarchy)) = Len(PlacedRows)
    /\ \A i \in 1..Len(PlacedRows) :
         /\ Cardinality(PlacesOf(PlacedRows[i]))
              = Cardinality({j \in 1..Len(PlacedRows) :
                               SpeciesItem(PlacedRows[j]) = SpeciesItem(PlacedRows[i])})
         /\ \A place \in PlacesOf(PlacedRows[i]) :
              \E j \in 1..Len(PlacedRows) :
                /\ SpeciesItem(PlacedRows[j]) = SpeciesItem(PlacedRows[i])
                /\ hierarchy.children[place[1]].name = PlacedRows[j].kingdom
                /\ hierarchy.children[place[1]].children[place[2]].name = PlacedRows[j].family
    /\ \A a, b \in 1..Len(hierarchy.children) :
         /\ (a # b) => hierarchy.children[a].name # hierarchy.children[b].name
         /\ \A c, e \in 1..Len(hierarchy.children[a].children) :
              (c # e) => hierarchy.children[a].children[c].name
                           # hierarchy.children[a].children[e].name

\* an emitted hierarchy in which the family Cervidae has a node under the
\* kingdom Animalia and another under the kingdom Unknown, each with one leaf
C30_Witness ==
  /\ Emitted
  /\ Len(PlacedRows) = 2
  /\ \E a, b \in 1..Len(hierarchy.children) :
       /\ hierarchy.children[a].name = "Animalia"
       /\ hierarchy.children[b].name = "Unknown"
       /\ \E c \in 1..Len(hierarchy.children[a].children),
             e \in 1..Len(hierarchy.children[b].children) :
            /\ hierarchy.children[a].children[c].name = "Cervidae"
            /\ hierarchy.children[b].children[e].name = "Cervidae"
            /\ Len(hierarchy.children[a].children[c].children) = 1
            /\ Len(hierarchy.children[b].children[e].children) = 1
====
